---- MODULE Spec2Model ----
(***************************************************************************)
(* JPyang (pyang/plugins/jpyang.py): the Java output plug-in of pyang.     *)
(* A string of the program is a sequence of one-character strings, so the  *)
(* character-level code (camelize, capitalize, split) is computed as the   *)
(* code computes it.  Type names and Java type names, which the code only  *)
(* compares and concatenates, are TLA+ strings.                            *)
(***************************************************************************)
EXTENDS Integers, Sequences, FiniteSets, TLC

VARIABLES
    stmt,       \* SpecIdent: the statement make_valid_identifier works on
    orig,       \* SpecIdent: its arg before the first call
    once,       \* SpecIdent: its arg after the first call
    applied,    \* SpecIdent: number of make_valid_identifier calls so far
    is_same,    \* outcome of the identity test  stmt.keyword is 'range'
    confm_keys,         \* SpecTypes: the list get_types appends ConfM types to
    primitive_keys,     \* SpecTypes: the list get_types appends Java types to
    type_args,          \* SpecTypes: yang_type.arg of each get_types call so far
    opts,               \* ctx.opts: the debug and verbose flags
    outputted_warnings, \* the module-level list of warning keys
    stderr,             \* the warnings printed so far
    stmts,      \* Spec: the statement tree that emit is given
    modules,    \* Spec: the ids of the statements in emit's modules list
    pc,         \* Spec: the position of emit
    mi,         \* Spec: the index in modules of the module emit works on
    files,      \* Spec: the write_file calls so far, in order
    returned,   \* Spec: the generate_classes calls with the tree of each, and the
                \* generate_child and extract_keys calls that returned
    runs,       \* Spec: the number of write_file calls before each later call of emit
    cwd,        \* the working directory of the process, from where pyang is started
    directories, \* SpecTasks: the directories os.makedirs has made
    task        \* SpecTasks: the position of each task, the cwd it has saved and
                \* the write_file calls of its module

identVars == <<stmt, orig, once, applied, is_same>>
vars == <<stmt, orig, once, applied, is_same, confm_keys, primitive_keys,
          type_args, opts, outputted_warnings, stderr,
          stmts, modules, pc, mi, files, returned, runs, cwd, directories, task>>
typesVars == <<confm_keys, primitive_keys, type_args, opts, outputted_warnings, stderr>>
osVars == <<cwd, directories, task>>
emitVars == <<stmts, modules, pc, mi, files, returned, runs, cwd, directories, task>>

None == "None"

\* Python values that are no statement and no context: None, and a str
PyNone == [py |-> "NoneType"]
PyStr(s) == [py |-> "str", value |-> s]

----------------------------------------------------------------------------
(* Characters and strings *)

LowerCase == <<"a","b","c","d","e","f","g","h","i","j","k","l","m","n","o","p","q","r","s","t","u","v","w","x","y","z">>
UpperCase == <<"A","B","C","D","E","F","G","H","I","J","K","L","M","N","O","P","Q","R","S","T","U","V","W","X","Y","Z">>

\* str.upper() / str.lower() of one character
upper(c) ==
    IF \E i \in DOMAIN LowerCase : LowerCase[i] = c
    THEN UpperCase[CHOOSE i \in DOMAIN LowerCase : LowerCase[i] = c]
    ELSE c

lower(c) ==
    IF \E i \in DOMAIN UpperCase : UpperCase[i] = c
    THEN LowerCase[CHOOSE i \in DOMAIN UpperCase : UpperCase[i] = c]
    ELSE c

\* str.capitalize(): first character upper-cased, the rest lower-cased
capitalize(s) ==
    [i \in DOMAIN s |-> IF i = 1 THEN upper(s[i]) ELSE lower(s[i])]

\* A set of identifiers that are reserved in Java (as the program lists them)
java_reserved_words ==
    {
      <<"a","b","s","t","r","a","c","t">>,
      <<"a","s","s","e","r","t">>,
      <<"b","o","o","l","e","a","n">>,
      <<"b","r","e","a","k">>,
      <<"b","y","t","e">>,
      <<"c","a","s","e">>,
      <<"c","a","t","c","h">>,
      <<"c","h","a","r">>,
      <<"c","l","a","s","s">>,
      <<"c","o","n","s","t","*">>,
      <<"c","o","n","t","i","n","u","e">>,
      <<"d","e","f","a","u","l","t">>,
      <<"d","o","u","b","l","e">>,
      <<"d","o">>,
      <<"e","l","s","e">>,
      <<"e","n","u","m">>,
      <<"e","x","t","e","n","d","s">>,
      <<"f","a","l","s","e">>,
      <<"f","i","n","a","l">>,
      <<"f","i","n","a","l","l","y">>,
      <<"f","l","o","a","t">>,
      <<"f","o","r">>,
      <<"g","o","t","o","*">>,
      <<"i","f">>,
      <<"i","m","p","l","e","m","e","n","t","s">>,
      <<"i","m","p","o","r","t">>,
      <<"i","n","s","t","a","n","c","e","o","f">>,
      <<"i","n","t">>,
      <<"i","n","t","e","r","f","a","c","e">>,
      <<"l","o","n","g">>,
      <<"n","a","t","i","v","e">>,
      <<"n","e","w">>,
      <<"n","u","l","l">>,
      <<"p","a","c","k","a","g","e">>,
      <<"p","r","i","v","a","t","e">>,
      <<"p","r","o","t","e","c","t","e","d">>,
      <<"p","u","b","l","i","c">>,
      <<"r","e","t","u","r","n">>,
      <<"s","h","o","r","t">>,
      <<"s","t","a","t","i","c">>,
      <<"s","t","r","i","c","t","f","p">>,
      <<"s","u","p","e","r">>,
      <<"s","w","i","t","c","h">>,
      <<"s","y","n","c","h","r","o","n","i","z","e","d">>,
      <<"t","h","i","s">>,
      <<"t","h","r","o","w">>,
      <<"t","h","r","o","w","s">>,
      <<"t","r","a","n","s","i","e","n","t">>,
      <<"t","r","u","e">>,
      <<"t","r","y">>,
      <<"v","o","i","d">>,
      <<"v","o","l","a","t","i","l","e">>,
      <<"w","h","i","l","e">>
    }

----------------------------------------------------------------------------
(* Identifier normalizer *)

\* camelize, from position i: the (character, next) pairs of pairwise(string);
\* on a separator with a following character the following character is
\* appended capitalized and its own pair is skipped (iterator.next()).
RECURSIVE camelizeFrom(_, _)
camelizeFrom(string, i) ==
    IF i > Len(string) THEN <<>>
    ELSE LET character == string[i]
             next == IF i < Len(string) THEN string[i + 1] ELSE None
         IN  IF next # None /\ character \in {"-", "."}
             THEN capitalize(<<next>>) \o camelizeFrom(string, i + 2)
             ELSE <<character>> \o camelizeFrom(string, i + 1)

camelize(string) == camelizeFrom(string, 1)

\* 'type' in stmt.keyword, over the keywords of YANG
HasType(keyword) == keyword \in {"type", "typedef"}

\* stmt.keyword is 'range': an identity test of two string objects; it can
\* hold only of equal strings and then holds or not as the interpreter shares
\* the two objects (same).
IsRange(keyword, same) == keyword = "range" /\ same

make_valid_identifier(s, same) ==
    IF ~HasType(s.keyword)
    THEN LET arg1 == IF ~IsRange(s.keyword, same) THEN camelize(s.arg) ELSE s.arg
             arg2 == IF arg1 \in java_reserved_words THEN <<"J">> \o arg1 ELSE arg1
         IN  [s EXCEPT !.arg = arg2]
    ELSE s


----------------------------------------------------------------------------
(* Warnings *)

NoMsg == [text |-> "", arg |-> <<>>]

\* print_warning that prints and leaves outputted_warnings as it is
print_warning_key_forgotten(msg, key, ctx, W) ==
    IF /\ (key = <<>> \/ \A i \in DOMAIN W.outputted_warnings : W.outputted_warnings[i] # key)
       /\ (ctx = PyNone \/ ctx.debug \/ ctx.verbose)
    THEN LET m == IF msg # NoMsg THEN msg
                  ELSE [text |-> "No support for type, defaulting to string.", arg |-> key]
         IN  [outputted_warnings |-> W.outputted_warnings,
              stderr |-> Append(W.stderr, m)]
    ELSE W

\* print_warning that appends the key also when the options silence the line
print_warning_key_of_silenced(msg, key, ctx, W) ==
    IF key = <<>> \/ \A i \in DOMAIN W.outputted_warnings : W.outputted_warnings[i] # key
    THEN LET m == IF msg # NoMsg THEN msg
                  ELSE [text |-> "No support for type, defaulting to string.", arg |-> key]
         IN  [outputted_warnings |->
                  IF key # <<>> THEN Append(W.outputted_warnings, key)
                  ELSE W.outputted_warnings,
              stderr |-> IF ctx = PyNone \/ ctx.debug \/ ctx.verbose
                         THEN Append(W.stderr, m) ELSE W.stderr]
    ELSE W

\* print_warning(msg, key, ctx) on W = [outputted_warnings, stderr]; ctx is
\* PyNone or ctx.opts, whose opts carry debug and verbose.  With an empty
\* msg the function calls itself once with the "No support for type" text.
print_warning(msg, key, ctx, W) ==
    IF /\ (key = <<>> \/ \A i \in DOMAIN W.outputted_warnings : W.outputted_warnings[i] # key)
       /\ (ctx = PyNone \/ ctx.debug \/ ctx.verbose)
    THEN LET m == IF msg # NoMsg THEN msg
                  ELSE [text |-> "No support for type, defaulting to string.", arg |-> key]
         IN  [outputted_warnings |->
                  IF key # <<>> THEN Append(W.outputted_warnings, key)
                  ELSE W.outputted_warnings,
              stderr |-> Append(W.stderr, m)]
    ELSE W

\* the print_warning calls of a sequence of calls [msg, key], in order
RECURSIVE print_warnings(_, _, _)
print_warnings(calls, ctx, W) ==
    IF calls = <<>> THEN W
    ELSE print_warnings(Tail(calls), ctx,
                        print_warning(Head(calls).msg, Head(calls).key, ctx, W))

----------------------------------------------------------------------------
(* Type mapper *)

s_string == <<"s","t","r","i","n","g">>
s_int8 == <<"i","n","t","8">>
s_int16 == <<"i","n","t","1","6">>
s_int32 == <<"i","n","t","3","2">>
s_int64 == <<"i","n","t","6","4">>
s_uint8 == <<"u","i","n","t","8">>
s_uint16 == <<"u","i","n","t","1","6">>
s_uint32 == <<"u","i","n","t","3","2">>
s_uint64 == <<"u","i","n","t","6","4">>
s_boolean == <<"b","o","o","l","e","a","n">>
s_enumeration == <<"e","n","u","m","e","r","a","t","i","o","n">>
s_decimal64 == <<"d","e","c","i","m","a","l","6","4">>
s_int24 == <<"i","n","t","2","4">>

\* string[-n:]
Last(string, n) ==
    IF Len(string) <= n THEN string
    ELSE SubSeq(string, Len(string) - n + 1, Len(string))

\* string[:n]
First(string, n) ==
    IF Len(string) <= n THEN string ELSE SubSeq(string, 1, n)

\* get_types with the primitive entry of an unmapped type left out
get_types_unmapped_confm_only(yang_type, confm, primitive, arg) ==
    IF "arg" \notin DOMAIN yang_type
    THEN [confm_keys |-> confm, primitive_keys |-> primitive, warn |-> <<>>,
          exc |-> "AttributeError"]
    ELSE
    LET a == yang_type.arg
        pkg == <<"c","o","m",".","t","a","i","l","f",".","c","o","n","f","m",".","x","s",".">>
        out(c, p, w) == [confm_keys |-> Append(confm, <<c, arg>>),
                         primitive_keys |-> Append(primitive, <<p, arg>>),
                         warn |-> w, exc |-> None]
    IN  IF a = s_string THEN out(pkg \o <<".","S","t","r","i","n","g">>, <<"S","t","r","i","n","g">>, <<>>)
        ELSE IF a \in {s_int8, s_int16, s_int32, s_int64,
                       s_uint8, s_uint16, s_uint32, s_uint64}
        THEN LET c == IF First(a, 1) = <<"u">> THEN pkg \o <<"U","n","s","i","g","n","e","d">> ELSE pkg
             IN  IF Last(a, 1) = <<"8">> THEN out(c \o <<"B","y","t","e">>, <<"b","y","t","e">>, <<>>)
                 ELSE IF Last(a, 2) = <<"1","6">> THEN out(c \o <<"S","h","o","r","t">>, <<"s","h","o","r","t">>, <<>>)
                 ELSE IF Last(a, 2) = <<"3","2">> THEN out(c \o <<"I","n","t">>, <<"i","n","t">>, <<>>)
                 ELSE IF Last(a, 2) = <<"6","4">> THEN out(c \o <<"L","o","n","g">>, <<"l","o","n","g">>, <<>>)
                 ELSE out(c \o <<"I","n","t">>, <<"i","n","t">>,
                          <<[msg |-> [text |-> "Parsed as an integer.", arg |-> a],
                             key |-> a]>>)
        ELSE IF a = s_boolean
        THEN out(<<"c","o","m",".","t","a","i","l","f",".","c","o","n","f","m",".","x","s",".","B","o","o","l","e","a","n">>, <<"b","o","o","l","e","a","n">>, <<>>)
        ELSE [confm_keys |-> Append(confm, <<<<"c","o","m",".","t","a","i","l","f",".","c","o","n","f","m",".","x","s",".","S","t","r","i","n","g">>, arg>>),
              primitive_keys |-> primitive,
              warn |-> <<[msg |-> NoMsg, key |-> a]>>, exc |-> None]

\* get_types(yang_type, confm_keys, primitive_keys, ctx, arg): the two lists
\* after the call, the print_warning calls it makes, and the exception it
\* raises (reading yang_type.arg of a value that has no attribute arg).
get_types(yang_type, confm, primitive, arg) ==
    IF "arg" \notin DOMAIN yang_type
    THEN [confm_keys |-> confm, primitive_keys |-> primitive, warn |-> <<>>,
          exc |-> "AttributeError"]
    ELSE
    LET a == yang_type.arg
        pkg == <<"c","o","m",".","t","a","i","l","f",".","c","o","n","f","m",".","x","s",".">>
        out(c, p, w) == [confm_keys |-> Append(confm, <<c, arg>>),
                         primitive_keys |-> Append(primitive, <<p, arg>>),
                         warn |-> w, exc |-> None]
    IN  IF a = s_string THEN out(pkg \o <<".","S","t","r","i","n","g">>, <<"S","t","r","i","n","g">>, <<>>)
        ELSE IF a \in {s_int8, s_int16, s_int32, s_int64,
                       s_uint8, s_uint16, s_uint32, s_uint64}
        THEN LET c == IF First(a, 1) = <<"u">> THEN pkg \o <<"U","n","s","i","g","n","e","d">> ELSE pkg
             IN  IF Last(a, 1) = <<"8">> THEN out(c \o <<"B","y","t","e">>, <<"b","y","t","e">>, <<>>)
                 ELSE IF Last(a, 2) = <<"1","6">> THEN out(c \o <<"S","h","o","r","t">>, <<"s","h","o","r","t">>, <<>>)
                 ELSE IF Last(a, 2) = <<"3","2">> THEN out(c \o <<"I","n","t">>, <<"i","n","t">>, <<>>)
                 ELSE IF Last(a, 2) = <<"6","4">> THEN out(c \o <<"L","o","n","g">>, <<"l","o","n","g">>, <<>>)
                 ELSE out(c \o <<"I","n","t">>, <<"i","n","t">>,
                          <<[msg |-> [text |-> "Parsed as an integer.", arg |-> a],
                             key |-> a]>>)
        ELSE IF a = s_boolean
        THEN out(<<"c","o","m",".","t","a","i","l","f",".","c","o","n","f","m",".","x","s",".","B","o","o","l","e","a","n">>, <<"b","o","o","l","e","a","n">>, <<>>)
        ELSE out(<<"c","o","m",".","t","a","i","l","f",".","c","o","n","f","m",".","x","s",".","S","t","r","i","n","g">>, <<"S","t","r","i","n","g">>,
                 <<[msg |-> NoMsg, key |-> a]>>)

----------------------------------------------------------------------------
(* The statement tree.  T maps a statement's id to                          *)
(*   [keyword, arg, parent, substmts, has_i_children, i_children];         *)
(* parent is 0 for None, substmts and i_children are sequences of ids.     *)

NoStmt == 0

\* the statement with this id, PyNone for None
Node(T, id) == IF id = NoStmt THEN PyNone ELSE T[id]

\* stmt.search(keyword): the substatements with this keyword, in order
search(T, id, keyword) ==
    SelectSeq(T[id].substmts, LAMBDA s : T[s].keyword = keyword)

\* stmt.search_one(keyword): the first such substatement, or None
search_one(T, id, keyword) ==
    LET found == search(T, id, keyword)
    IN  IF found = <<>> THEN NoStmt ELSE found[1]

\* stmt.search_one(keyword, arg)
search_one_arg(T, id, keyword, arg) ==
    LET found == SelectSeq(T[id].substmts,
                           LAMBDA s : T[s].keyword = keyword /\ T[s].arg = arg)
    IN  IF found = <<>> THEN NoStmt ELSE found[1]

\* split that leaves the string whole
split_whole(string, sep) == <<string>>

\* string.split(sep) with a one-character separator: every separator ends a
\* token, so two adjacent separators enclose an empty token
RECURSIVE splitFrom(_, _, _, _)
splitFrom(string, sep, i, token) ==
    IF i > Len(string) THEN <<token>>
    ELSE IF string[i] = sep THEN <<token>> \o splitFrom(string, sep, i + 1, <<>>)
    ELSE splitFrom(string, sep, i + 1, Append(token, string[i]))

split(string, sep) == splitFrom(string, sep, 1, <<>>)

\* string.replace(old, new) for one-character strings
replace(string, old, new) ==
    [i \in DOMAIN string |-> IF string[i] = old THEN new ELSE string[i]]

InSeq(x, seq) == \E i \in DOMAIN seq : seq[i] = x

is_module(s) == s.keyword = "module" \/ s.keyword = "submodule"

is_container(s, strict) ==
    s.keyword = "container" \/ (~strict /\ s.keyword = "list")

in_schema(s) ==
    is_container(s, FALSE) \/ s.keyword = "module" \/ s.keyword = "leaf"

\* extract_names(arg): (capitalized + '.java', capitalized)
extract_names(arg) ==
    [filename |-> capitalize(arg) \o <<".","j","a","v","a">>, name |-> capitalize(arg)]

\* write_file(d, file_name, file_content, modules, ctx): one written file
write_file(d, file_name, file_content) ==
    [dir |-> replace(d, ".", "/"), name |-> file_name, content |-> file_content]

----------------------------------------------------------------------------
(* Identifier normalizer on the tree *)

\* make_valid_identifiers(stmt): make_valid_identifier on stmt, then the
\* same on every substatement and then on every i_children entry, in order;
\* the tree after the call.
RECURSIVE make_valid_identifiers(_, _, _)
RECURSIVE make_valid_each(_, _, _, _)
make_valid_each(T, ids, i, same) ==
    IF i > Len(ids) THEN T
    ELSE make_valid_each(make_valid_identifiers(T, ids[i], same), ids, i + 1, same)

make_valid_identifiers(T, id, same) ==
    LET s == make_valid_identifier(T[id], same)
        T1 == [T EXCEPT ![id] = s]
        T2 == make_valid_each(T1, T[id].substmts, 1, same)
    IN  IF T[id].has_i_children
        THEN make_valid_each(T2, T[id].i_children, 1, same)
        ELSE T2

\* the statements make_valid_identifier is called on in the call
\* make_valid_identifiers(stmt), in the order of the calls
RECURSIVE make_valid_calls(_, _)
RECURSIVE make_valid_calls_each(_, _, _)
make_valid_calls_each(T, ids, i) ==
    IF i > Len(ids) THEN <<>>
    ELSE make_valid_calls(T, ids[i]) \o make_valid_calls_each(T, ids, i + 1)

make_valid_calls(T, id) ==
    <<id>> \o make_valid_calls_each(T, T[id].substmts, 1)
         \o (IF T[id].has_i_children
             THEN make_valid_calls_each(T, T[id].i_children, 1)
             ELSE <<>>)

----------------------------------------------------------------------------
(* Schema metadata emitter *)

\* the args of stmt's substatements, each followed by a space, without the
\* last character
RECURSIVE children_string(_, _, _)
children_string(T, subs, i) ==
    IF i > Len(subs) THEN <<>>
    ELSE T[subs[i]].arg \o <<" ">> \o children_string(T, subs, i + 1)

ButLast(string) ==
    IF string = <<>> THEN <<>> ELSE SubSeq(string, 1, Len(string) - 1)

\* schema_node that takes no notice of unique
schema_node_unique_ignored(T, id, tagpath, ns) ==
    LET s == T[id]
        mandatory == search_one(T, id, "mandatory")
        isMandatory == mandatory # NoStmt /\ T[mandatory].arg = <<"t","r","u","e">>
        unique == search_one(T, id, "unique")
        isUnique == unique # NoStmt /\ T[unique].arg = <<"t","r","u","e">>
        key == IF s.parent # NoStmt THEN search_one(T, s.parent, "key") ELSE NoStmt
        isKey == key # NoStmt /\ T[key].arg = s.arg
        childOfContainerOrList ==
            s.parent # NoStmt /\ is_container(T[s.parent], FALSE)
        one == is_module(s) \/ isKey
                    \/ (childOfContainerOrList /\ is_container(s, TRUE))
        min1 == IF one THEN "1" ELSE "0"
        max1 == IF one THEN "1" ELSE "-1"
        min_occurs == IF isMandatory THEN "1" ELSE min1
        max_occurs == IF childOfContainerOrList \/ is_container(s, TRUE)
                      THEN "1" ELSE max1
    IN  [tagpath |-> tagpath, namespace |-> ns,
         min_occurs |-> min_occurs, max_occurs |-> max_occurs,
         children |-> ButLast(children_string(T, s.substmts, 1))]

\* schema_node(stmt, tagpath, ns, ctx): the content of one "node" element
schema_node(T, id, tagpath, ns) ==
    LET s == T[id]
        mandatory == search_one(T, id, "mandatory")
        isMandatory == mandatory # NoStmt /\ T[mandatory].arg = <<"t","r","u","e">>
        unique == search_one(T, id, "unique")
        isUnique == unique # NoStmt /\ T[unique].arg = <<"t","r","u","e">>
        key == IF s.parent # NoStmt THEN search_one(T, s.parent, "key") ELSE NoStmt
        isKey == key # NoStmt /\ T[key].arg = s.arg
        childOfContainerOrList ==
            s.parent # NoStmt /\ is_container(T[s.parent], FALSE)
        one == is_module(s) \/ isKey
                    \/ (childOfContainerOrList /\ is_container(s, TRUE))
        min1 == IF one THEN "1" ELSE "0"
        max1 == IF one THEN "1" ELSE "-1"
        min_occurs == IF isMandatory THEN "1" ELSE min1
        max_occurs == IF isUnique \/ childOfContainerOrList \/ is_container(s, TRUE)
                      THEN "1" ELSE max1
    IN  [tagpath |-> tagpath, namespace |-> ns,
         min_occurs |-> min_occurs, max_occurs |-> max_occurs,
         children |-> ButLast(children_string(T, s.substmts, 1))]

\* schema_nodes(stmts, tagpath, ns, ctx): the "node" elements of the
\* statements that are in the schema and of their substatements, in order
RECURSIVE schema_nodes(_, _, _, _, _)
schema_nodes(T, subs, i, tagpath, ns) ==
    IF i > Len(subs) THEN <<>>
    ELSE LET id == subs[i]
             here == tagpath \o T[id].arg \o <<"/">>
         IN  (IF in_schema(T[id])
              THEN <<schema_node(T, id, here, ns)>>
                     \o schema_nodes(T, T[id].substmts, 1, here, ns)
              ELSE <<>>)
             \o schema_nodes(T, subs, i + 1, tagpath, ns)

----------------------------------------------------------------------------
(* Member generators.  A generated method is the record of what determines *)
(* its Java text: the generator (method), the statement it is for and the  *)
(* arguments that reach the text.  access_methods is the sequence of the   *)
(* methods concatenated into it.                                           *)

access_methods_comment(s, optional) ==
    [method |-> "access_methods_comment", keyword |-> s.keyword, arg |-> s.arg,
     optional |-> optional]

child_field(s) ==
    [method |-> "child_field", keyword |-> s.keyword, arg |-> s.arg]

\* the parameter list of a method whose arguments are keys: String or the
\* given type, and the name
key_arguments(args, string) ==
    [i \in DOMAIN args |-> <<IF string THEN <<"S","t","r","i","n","g">> ELSE args[i][1], args[i][2]>>]

\* the names of args, each one predicate [name='<value>'] of a path
key_predicates(args) == [i \in DOMAIN args |-> args[i][2]]

get_stmt(s, keys, string) ==
    [method |-> "get_stmt", keyword |-> s.keyword, arg |-> s.arg,
     string |-> string, arguments |-> key_arguments(keys, string),
     path |-> [arg |-> s.arg, predicates |-> key_predicates(keys)]]

get_value(s, ret_type) ==
    [method |-> "get_value", keyword |-> s.keyword, arg |-> s.arg,
     ret_type |-> ret_type]

set_value(s, prefix, arg_type, confm_type) ==
    [method |-> "set_value", keyword |-> s.keyword, arg |-> s.arg,
     prefix |-> prefix, arg_type |-> arg_type, confm_type |-> confm_type,
     body |-> IF arg_type = <<>> THEN "set(new)"
              ELSE IF prefix # <<>>
              THEN (IF s.keyword = "leaf-list" THEN "setLeafListValue" ELSE "setLeafValue")
              ELSE "set(new confm_type)"]

unset_value(s) ==
    [method |-> "unset_value", keyword |-> s.keyword, arg |-> s.arg]

add_value(s, prefix) ==
    [method |-> "add_value", keyword |-> s.keyword, arg |-> s.arg,
     prefix |-> prefix,
     name |-> (IF s.keyword = "leaf-list" THEN <<"E","m","p","t","y">> ELSE <<>>) \o capitalize(s.arg)]

\* mark(stmt, op, arg_type): the method has an argument, of arg_type, only
\* for a leaf-list
mark(s, op, arg_type) ==
    [method |-> "mark", keyword |-> s.keyword, arg |-> s.arg, op |-> op,
     argument |-> IF s.keyword = "leaf-list" THEN arg_type ELSE <<>>]

child_iterator(s) ==
    [method |-> "child_iterator", keyword |-> s.keyword, arg |-> s.arg,
     iterator_type |-> IF s.keyword = "leaf-list" THEN "LeafListValue" ELSE "Children"]

\* add_stmt(stmt, args, field, string): "attach" adds its argument as a
\* child, "filter" constructs with no argument, "keys" constructs from the
\* arguments
add_stmt(s, args, field, string) ==
    LET attach == Len(args) = 1 /\ args[1][1] = s.arg
    IN  [method |-> "add_stmt", keyword |-> s.keyword, arg |-> s.arg,
         field |-> field,
         form |-> IF attach THEN "attach" ELSE IF args = <<>> THEN "filter" ELSE "keys",
         arguments |-> IF attach THEN <<<<capitalize(s.arg), s.arg>>>>
                       ELSE key_arguments(args, string),
         construct |-> IF attach THEN <<>> ELSE key_predicates(args)]

\* delete_stmt that takes no notice of string
delete_stmt_confm_only(s, args, string, keys) ==
    [method |-> "delete_stmt", keyword |-> s.keyword, arg |-> s.arg,
     string |-> FALSE,
     arguments |-> key_arguments(args, FALSE),
     clears_field |-> args = <<>>,
     path |-> [arg |-> s.arg,
               predicates |-> IF keys THEN key_predicates(args)
                              ELSE [i \in DOMAIN args |-> <<"n","a","m","e">>]]]

\* delete_stmt(stmt, args, string, keys): without args the field is set to
\* null before the path is deleted
delete_stmt(s, args, string, keys) ==
    [method |-> "delete_stmt", keyword |-> s.keyword, arg |-> s.arg,
     string |-> string,
     arguments |-> key_arguments(args, string),
     clears_field |-> args = <<>>,
     path |-> [arg |-> s.arg,
               predicates |-> IF keys THEN key_predicates(args)
                              ELSE [i \in DOMAIN args |-> <<"n","a","m","e">>]]]

\* support_add(fields): the instanceof tests of addChild, in the order the
\* loop over range(len(fields) - 1, -1, -1) writes them
support_add(fields) ==
    [method |-> "support_add",
     tests |-> [i \in DOMAIN fields |-> fields[Len(fields) + 1 - i]]]

\* clone(class_name, key_names, shallow)
clone(class_name, keynames, shallow) ==
    [method |-> "clone", class_name |-> class_name, shallow |-> shallow,
     getters |-> keynames,
     catches |-> keynames # <<>>,
     content |-> IF ~shallow THEN "cloneContent" ELSE "cloneShallowContent"]

\* the key identifiers of all key statements of stmt, in order
RECURSIVE key_list(_, _, _)
key_list(T, keys, i) ==
    IF i > Len(keys) THEN <<>>
    ELSE split(T[keys[i]].arg, " ") \o key_list(T, keys, i + 1)

\* key_names(stmt): keyNames() returns null without a key statement
key_names(T, id) ==
    LET keys == search(T, id, "key")
    IN  [method |-> "key_names",
         null |-> keys = <<>>,
         names |-> key_list(T, keys, 1)]

\* children_names(stmt): the args of the substatements that are no key
\* statement
children_names(T, id) ==
    LET children == SelectSeq(T[id].substmts, LAMBDA x : T[x].keyword # "key")
    IN  [method |-> "children_names",
         names |-> [i \in DOMAIN children |-> T[children[i]].arg]]

\* the values of a constructor with String or primitive arguments: get_types
\* is called on the first component of each tuple of args
RECURSIVE constructor_values(_, _)
constructor_values(args, i) ==
    IF i > Len(args) THEN [values |-> <<>>, warn |-> <<>>, exc |-> None]
    ELSE LET arg_type == args[i][1]
             arg_name == args[i][2]
             r == get_types(PyStr(arg_type), <<>>, <<>>, <<>>)
         IN  IF r.exc # None
             THEN [values |-> <<>>, warn |-> r.warn, exc |-> r.exc]
             ELSE LET decl == <<"n","e","w"," ">> \o r.confm_keys[1][1] \o <<"(">>
                      rest == constructor_values(args, i + 1)
                  IN  [values |-> <<decl \o arg_name \o <<"V","a","l","u","e",")">>>> \o rest.values,
                       warn |-> r.warn \o rest.warn,
                       exc |-> rest.exc]

\* constructor(stmt, ctx, root, set_prefix, mode, args, throws)
constructor(s, root, set_prefix, mode, args) ==
    LET name == capitalize(s.arg)
        root1 == IF root = <<>> THEN name ELSE root
        made(obj_status, values, warn) ==
            [exc |-> None, warn |-> warn,
             method |-> [method |-> "constructor", arg |-> s.arg, name |-> name,
                         mode |-> mode, obj_status |-> obj_status,
                         arguments |->
                             [i \in DOMAIN values |->
                                 <<IF mode = 2 THEN <<"S","t","r","i","n","g">> ELSE args[i][1],
                                   args[i][2] \o <<"V","a","l","u","e">>>>],
                         inserts |->
                             [i \in DOMAIN values |-> <<args[i][2], values[i]>>],
                         set_prefix |-> set_prefix, root |-> root1]]
    IN  IF args = <<>> \/ mode = 0 THEN made("empty", <<>>, <<>>)
        ELSE IF mode = 1
        THEN made("initialized", [i \in DOMAIN args |-> args[i][2] \o <<"V","a","l","u","e">>], <<>>)
        ELSE LET v == constructor_values(args, 1)
             IN  IF v.exc # None
                 THEN [exc |-> v.exc, warn |-> v.warn]
                 ELSE made("initialized", v.values, v.warn)

----------------------------------------------------------------------------
(* Key extractor *)

\* the loop of extract_keys over key.arg.split(' '), from token i
RECURSIVE extract_keys_from(_, _, _, _, _, _, _)
extract_keys_from(T, id, args, i, only_strings, confm, primitive) ==
    IF i > Len(args)
    THEN [only_strings |-> only_strings, confm_keys |-> confm,
          primitive_keys |-> primitive, warn |-> <<>>, exc |-> None]
    ELSE LET leaf == search_one_arg(T, id, "leaf", args[i])
             key_type == IF leaf = NoStmt THEN NoStmt ELSE search_one(T, leaf, "type")
             r == get_types(Node(T, key_type), confm, primitive, args[i])
         IN  IF leaf = NoStmt \/ r.exc # None
             THEN [only_strings |-> only_strings, confm_keys |-> confm,
                   primitive_keys |-> primitive, warn |-> <<>>,
                   exc |-> "AttributeError"]
             ELSE LET last == r.primitive_keys[Len(r.primitive_keys)]
                      rest == extract_keys_from(T, id, args, i + 1,
                                  only_strings * (IF last[1] = <<"S","t","r","i","n","g">> THEN 1 ELSE 0),
                                  r.confm_keys, r.primitive_keys)
                  IN  [rest EXCEPT !.warn = r.warn \o rest.warn]

\* extract_keys(stmt, ctx): key, only_strings (True, then the product of 0s
\* and 1s), confm_keys and primitive_keys
extract_keys(T, id) ==
    LET key == search_one(T, id, "key")
    IN  IF key = NoStmt
        THEN [key |-> key, only_strings |-> 1, confm_keys |-> <<>>,
              primitive_keys |-> <<>>, warn |-> <<>>, exc |-> "AttributeError"]
        ELSE LET r == extract_keys_from(T, id, split(T[key].arg, " "), 1, 1, <<>>, <<>>)
             IN  [key |-> key, only_strings |-> r.only_strings,
                  confm_keys |-> r.confm_keys, primitive_keys |-> r.primitive_keys,
                  warn |-> r.warn, exc |-> r.exc]

----------------------------------------------------------------------------
(* Class-hierarchy generator.  A call's result carries what it did before  *)
(* it returned or raised: the files written, the print_warning calls made, *)
(* the calls of generate_child that returned and the calls of extract_keys  *)
(* (log), and the exception raised (exc).                                   *)

EmptyGen ==
    [access_methods |-> <<>>, fields |-> <<>>, files |-> <<>>, warn |-> <<>>,
     log |-> <<>>, exc |-> None]

\* r, and after it rest
Then(r, rest) ==
    [access_methods |-> r.access_methods \o rest.access_methods,
     fields |-> r.fields \o rest.fields,
     files |-> r.files \o rest.files,
     warn |-> r.warn \o rest.warn,
     log |-> r.log \o rest.log,
     exc |-> rest.exc]

\* what a call that raised leaves behind
Raised(r, exc) ==
    [access_methods |-> <<>>, fields |-> <<>>, files |-> r.files, warn |-> r.warn,
     log |-> r.log, exc |-> exc]

\* java_class(filename, package, imports, description, body, ...) of the
\* class of a container or list
class_unit(s, filename, package, path, ns, src, constructors, cloners, keynames, childrennames, access_methods, support_methods) ==
    [class |-> "Container",
     filename |-> filename,
     package |-> replace(package, "/", "."),
     description |-> [element |-> path \o s.arg, namespace |-> ns],
     source |-> src,
     constructors |-> constructors,
     cloners |-> cloners,
     key_names |-> keynames,
     children_names |-> childrennames,
     access_methods |-> access_methods,
     support_methods |-> support_methods]

RECURSIVE generate_class(_, _, _, _, _, _, _, _)
RECURSIVE generate_child(_, _, _, _, _, _, _, _)
RECURSIVE child_after(_, _, _, _, _, _, _, _)
RECURSIVE materialized_children(_, _, _, _, _, _, _)
RECURSIVE generate_children(_, _, _, _, _, _, _, _, _)
RECURSIVE children_after(_, _, _, _, _, _, _, _, _, _)

\* the loop  for sub in subs: generate_child(stmt, sub, ...)  from index i:
\* the accumulated access_methods and fields, up to the child that raises
generate_children(T, id, subs, i, package, src, path, ns, prefix_name) ==
    IF i > Len(subs) THEN EmptyGen
    ELSE children_after(T, id, subs, i, package, src, path, ns, prefix_name,
             generate_child(T, id, subs[i], package, src, path, ns, prefix_name))

\* the loop after the call of generate_child on subs[i], whose result is r
children_after(T, id, subs, i, package, src, path, ns, prefix_name, r) ==
    IF r.exc # None THEN Raised(r, r.exc)
    ELSE Then(r, generate_children(T, id, subs, i + 1, package, src, path, ns,
                                   prefix_name))

\* the constructors of a list: no arguments, ConfM, String and, unless all
\* keys are strings, primitive arguments
constructors_of(only_strings, c0, c1, c2, c3) ==
        IF c0.exc # None THEN [exc |-> c0.exc, warn |-> c0.warn]
        ELSE IF c1.exc # None THEN [exc |-> c1.exc, warn |-> c0.warn \o c1.warn]
        ELSE IF c2.exc # None
        THEN [exc |-> c2.exc, warn |-> c0.warn \o c1.warn \o c2.warn]
        ELSE IF only_strings = 0
        THEN (IF c3.exc # None
              THEN [exc |-> c3.exc, warn |-> c0.warn \o c1.warn \o c2.warn \o c3.warn]
              ELSE [exc |-> None, warn |-> c0.warn \o c1.warn \o c2.warn \o c3.warn,
                    constructors |-> <<c0.method, c1.method, c2.method, c3.method>>])
        ELSE [exc |-> None, warn |-> c0.warn \o c1.warn \o c2.warn,
              constructors |-> <<c0.method, c1.method, c2.method>>]

list_constructors(s, prefix_name, top_level, k) ==
    constructors_of(k.only_strings,
        constructor(s, prefix_name, top_level, 0, <<>>),
        constructor(s, prefix_name, top_level, 1, k.confm_keys),
        constructor(s, prefix_name, top_level, 2, k.primitive_keys),
        constructor(s, prefix_name, top_level, 3, k.primitive_keys))

\* generate_class after its two loops: children is what the loops over
\* stmt.i_children and stmt.substmts did, k what extract_keys returns for a
\* list, lc the constructors of a list
class_after(T, id, package, src, path, ns, prefix_name, top_level, children, k, lc) ==
    LET s == T[id]
        names == extract_names(s.arg)
        support_methods ==
            IF SelectSeq(s.substmts, LAMBDA x : is_container(T[x], FALSE)) # <<>>
            THEN <<support_add(children.fields)>>
            ELSE <<>>
        key_log == <<[call |-> "extract_keys", stmt |-> id, key |-> k.key,
                      only_strings |-> k.only_strings, confm_keys |-> k.confm_keys,
                      primitive_keys |-> k.primitive_keys, exc |-> k.exc]>>
        keynames == [i \in DOMAIN split(T[k.key].arg, " ") |->
                        capitalize(split(T[k.key].arg, " ")[i])]
        unit(constructors, cloners) ==
            write_file(package, names.filename,
                class_unit(s, names.filename, package, path, ns, src, constructors,
                           cloners, key_names(T, id), children_names(T, id),
                           children.access_methods, support_methods))
    IN  IF children.exc # None THEN Raised(children, children.exc)
        ELSE IF s.keyword = "container"
        THEN [files |-> Append(children.files,
                               unit(<<constructor(s, prefix_name, top_level, 0, <<>>).method>>,
                                    <<clone(names.name, <<>>, FALSE),
                                      clone(names.name, <<>>, TRUE)>>)),
              warn |-> children.warn, log |-> children.log, exc |-> None]
        ELSE IF s.keyword = "list"
        THEN IF k.exc # None
             THEN [files |-> children.files, warn |-> children.warn \o k.warn,
                   log |-> children.log \o key_log, exc |-> k.exc]
             ELSE IF lc.exc # None
             THEN [files |-> children.files, warn |-> children.warn \o k.warn \o lc.warn,
                   log |-> children.log \o key_log, exc |-> lc.exc]
             ELSE [files |-> Append(children.files,
                                    unit(lc.constructors,
                                         <<clone(names.name, keynames, FALSE),
                                           clone(names.name, keynames, TRUE)>>)),
                   warn |-> children.warn \o k.warn \o lc.warn,
                   log |-> children.log \o key_log, exc |-> None]
        ELSE [files |-> Append(children.files, unit(<<>>, <<>>)),
              warn |-> children.warn, log |-> children.log, exc |-> None]

\* the constructors of the list id, whose keys are k
constructors_after(T, id, prefix_name, top_level, k) ==
    IF T[id].keyword = "list" /\ k.exc = None
    THEN list_constructors(T[id], prefix_name, top_level, k)
    ELSE [exc |-> None, warn |-> <<>>, constructors |-> <<>>]

\* the i_children that are no substatements; an AttributeError (of
\* stmt.i_children, or out of generate_child) ends the loop and is passed
materialized_children(T, id, package, src, path, ns, prefix_name) ==
    IF T[id].has_i_children
    THEN [generate_children(T, id,
              SelectSeq(T[id].i_children, LAMBDA ch : ~InSeq(ch, T[id].substmts)),
              1, package, src, path, ns, prefix_name) EXCEPT !.exc = None]
    ELSE EmptyGen

\* class_keys that takes a list without a key statement as a container: a
\* constructor without arguments, clones without keys
class_keys_keyless(T, id, package, src, path, ns, prefix_name, top_level, children, k) ==
    IF T[id].keyword = "list" /\ k.key = NoStmt
    THEN class_after([T EXCEPT ![id].keyword = "container"], id, package, src, path, ns,
                     prefix_name, top_level, children, [k EXCEPT !.exc = None],
                     [exc |-> None, warn |-> <<>>, constructors |-> <<>>])
    ELSE class_after(T, id, package, src, path, ns, prefix_name, top_level, children, k,
                     constructors_after(T, id, prefix_name, top_level, k))

\* generate_class after the loops, from the keys of a list on
class_keys(T, id, package, src, path, ns, prefix_name, top_level, children, k) ==
    class_after(T, id, package, src, path, ns, prefix_name, top_level, children, k,
                constructors_after(T, id, prefix_name, top_level, k))

\* generate_class with the loop over stmt.i_children outside of the try: an
\* AttributeError out of that loop is passed to the caller
generate_class_passing(T, id, package, src, path, ns, prefix_name, top_level) ==
    LET children == IF T[id].has_i_children
                    THEN generate_children(T, id,
                             SelectSeq(T[id].i_children, LAMBDA ch : ~InSeq(ch, T[id].substmts)),
                             1, package, src, path, ns, prefix_name)
                    ELSE EmptyGen
    IN  IF children.exc # None
        THEN [files |-> children.files, warn |-> children.warn, log |-> children.log,
              exc |-> children.exc]
        ELSE class_keys(T, id, package, src, path, ns, prefix_name, top_level,
                 Then(children,
                      generate_children(T, id, T[id].substmts, 1, package, src, path, ns,
                                        prefix_name)),
                 IF T[id].keyword = "list" THEN extract_keys(T, id)
                 ELSE [key |-> NoStmt, only_strings |-> 1, confm_keys |-> <<>>,
                       primitive_keys |-> <<>>, warn |-> <<>>, exc |-> None])

\* generate_class(stmt, package, src, path, ns, prefix_name, ctx, top_level)
generate_class(T, id, package, src, path, ns, prefix_name, top_level) ==
    class_keys(T, id, package, src, path, ns, prefix_name, top_level,
        Then(materialized_children(T, id, package, src, path, ns, prefix_name),
             generate_children(T, id, T[id].substmts, 1, package, src, path, ns,
                               prefix_name)),
        IF T[id].keyword = "list" THEN extract_keys(T, id)
        ELSE [key |-> NoStmt, only_strings |-> 1, confm_keys |-> <<>>,
              primitive_keys |-> <<>>, warn |-> <<>>, exc |-> None])

\* generate_child(stmt, sub, package, src, path, ns, prefix_name, ctx)
generate_child(T, id, subid, package, src, path, ns, prefix_name) ==
    child_after(T, id, subid, ns, prefix_name,
        IF T[subid].keyword \in {"list", "container"}
        THEN generate_class(T, subid, package \o <<".">> \o T[id].arg, src,
                            path \o T[id].arg \o <<"/">>, ns, prefix_name, FALSE)
        ELSE [files |-> <<>>, warn |-> <<>>, log |-> <<>>, exc |-> None],
        IF T[subid].keyword = "list" THEN extract_keys(T, subid)
        ELSE [key |-> NoStmt, only_strings |-> 1, confm_keys |-> <<>>,
              primitive_keys |-> <<>>, warn |-> <<>>, exc |-> None],
        IF T[subid].keyword \in {"leaf", "leaf-list"}
        THEN get_types(Node(T, search_one(T, subid, "type")), <<>>, <<>>, <<>>)
        ELSE [confm_keys |-> <<>>, primitive_keys |-> <<>>, warn |-> <<>>,
              exc |-> None])

\* generate_child after the class of a list or container sub is generated
\* (nested): the access methods and fields of sub; k is what extract_keys
\* returns for a list sub, t what get_types appends for the type of a leaf or
\* leaf-list sub
child_after(T, id, subid, ns, prefix_name, nested, k, t) ==
    LET stmt_ == T[id]
        sub == T[subid]
        returns(access_methods, fields, warn, log) ==
            [access_methods |-> access_methods, fields |-> fields,
             files |-> nested.files, warn |-> nested.warn \o warn,
             log |-> nested.log \o log
                     \o <<[call |-> "generate_child", stmt |-> id, sub |-> subid,
                           keyword |-> sub.keyword, arg |-> sub.arg,
                           key |-> IF search_one(T, id, "key") = NoStmt THEN <<>>
                                   ELSE T[search_one(T, id, "key")].arg,
                           access_methods |-> access_methods, fields |-> fields]>>,
             exc |-> None]
        raises(warn, log) ==
            [access_methods |-> <<>>, fields |-> <<>>, files |-> nested.files,
             warn |-> nested.warn \o warn, log |-> nested.log \o log,
             exc |-> "AttributeError"]
    IN  IF nested.exc # None THEN Raised(nested, nested.exc)
        ELSE IF sub.keyword = "list"
        THEN LET key_log == <<[call |-> "extract_keys", stmt |-> subid, key |-> k.key,
                               only_strings |-> k.only_strings,
                               confm_keys |-> k.confm_keys,
                               primitive_keys |-> k.primitive_keys, exc |-> k.exc]>>
             IN  IF k.exc # None THEN raises(k.warn, key_log)
                 ELSE returns(
                        <<access_methods_comment(sub, FALSE),
                          get_stmt(sub, k.confm_keys, FALSE),
                          get_stmt(sub, k.confm_keys, TRUE),
                          child_iterator(sub),
                          add_stmt(sub, <<<<sub.arg, sub.arg>>>>, FALSE, FALSE),
                          add_stmt(sub, k.confm_keys, FALSE, FALSE),
                          add_stmt(sub, k.confm_keys, FALSE, TRUE),
                          add_stmt(sub, <<>>, FALSE, FALSE),
                          delete_stmt(sub, k.confm_keys, FALSE, TRUE),
                          delete_stmt(sub, k.confm_keys, TRUE, TRUE)>>,
                        <<>>, k.warn, key_log)
        ELSE IF sub.keyword = "container"
        THEN returns(
               <<access_methods_comment(sub, FALSE),
                 child_field(sub),
                 add_stmt(sub, <<<<stmt_.arg \o <<".">> \o sub.arg, sub.arg>>>>, TRUE, FALSE),
                 add_stmt(sub, <<>>, TRUE, FALSE),
                 delete_stmt(sub, <<>>, FALSE, TRUE)>>,
               <<sub.arg>>, <<>>, <<>>)
        ELSE IF sub.keyword = "leaf"
        THEN LET key == search_one(T, id, "key")
                 optional == ~(key # NoStmt /\ InSeq(sub.arg, split(T[key].arg, " ")))
                 temp == [keyword |-> "key", arg |-> sub.arg]
                 comment == IF optional THEN access_methods_comment(sub, optional)
                            ELSE access_methods_comment(temp, optional)
                 type_str1 == t.confm_keys[1][1]
                 type_str2 == t.primitive_keys[1][1]
             IN  IF t.exc # None THEN raises(t.warn, <<>>)
                 ELSE returns(
                        <<comment,
                          get_value(sub, type_str1),
                          set_value(sub, prefix_name, type_str1, <<>>),
                          set_value(sub, <<>>, <<"S","t","r","i","n","g">>, type_str1)>>
                        \o (IF type_str2 # <<"S","t","r","i","n","g">>
                            THEN <<set_value(sub, <<>>, type_str2, type_str1)>>
                            ELSE <<>>)
                        \o (IF optional THEN <<unset_value(sub)>> ELSE <<>>)
                        \o <<add_value(sub, prefix_name)>>
                        \o (IF optional
                            THEN <<mark(sub, "replace", <<"S","t","r","i","n","g">>),
                                   mark(sub, "merge", <<"S","t","r","i","n","g">>),
                                   mark(sub, "create", <<"S","t","r","i","n","g">>),
                                   mark(sub, "delete", <<"S","t","r","i","n","g">>)>>
                            ELSE <<>>),
                        <<>>, t.warn, <<>>)
        ELSE IF sub.keyword = "leaf-list"
        THEN LET type_str1 == t.confm_keys[1][1]
                 type_str2 == t.primitive_keys[1][1]
                 value == <<<<type_str1, sub.arg \o <<"V","a","l","u","e">>>>>>
             IN  IF t.exc # None THEN raises(t.warn, <<>>)
                 ELSE returns(
                        <<access_methods_comment(sub, FALSE),
                          child_iterator(sub),
                          set_value(sub, prefix_name, type_str1, <<>>),
                          set_value(sub, <<>>, <<"S","t","r","i","n","g">>, type_str1)>>
                        \o (IF type_str2 # <<"S","t","r","i","n","g">>
                            THEN <<set_value(sub, <<>>, type_str2, type_str1)>>
                            ELSE <<>>)
                        \o <<delete_stmt(sub, value, FALSE, FALSE),
                             delete_stmt(sub, value, TRUE, FALSE),
                             add_value(sub, prefix_name),
                             mark(sub, "replace", type_str1),
                             mark(sub, "replace", <<"S","t","r","i","n","g">>),
                             mark(sub, "merge", type_str1),
                             mark(sub, "merge", <<"S","t","r","i","n","g">>),
                             mark(sub, "create", type_str1),
                             mark(sub, "create", <<"S","t","r","i","n","g">>),
                             mark(sub, "delete", type_str1),
                             mark(sub, "delete", <<"S","t","r","i","n","g">>)>>,
                        <<>>, t.warn, <<>>)
        ELSE returns(<<>>, <<>>, <<>>, <<>>)

\* the loop of generate_classes over module.substmts, from index i
RECURSIVE generate_top(_, _, _, _, _, _, _)
RECURSIVE top_after(_, _, _, _, _, _, _, _)
generate_top(T, subs, i, package, src, ns_arg, name) ==
    IF i > Len(subs) THEN [files |-> <<>>, warn |-> <<>>, log |-> <<>>, exc |-> None]
    ELSE IF T[subs[i]].keyword \in {"container", "list"}
    THEN top_after(T, subs, i, package, src, ns_arg, name,
             generate_class(T, subs[i], package, src, <<>>, ns_arg, name, TRUE))
    ELSE generate_top(T, subs, i + 1, package, src, ns_arg, name)

\* the loop after the call of generate_class on subs[i], whose result is r
top_after(T, subs, i, package, src, ns_arg, name, r) ==
    IF r.exc # None THEN r
    ELSE LET rest == generate_top(T, subs, i + 1, package, src, ns_arg, name)
         IN  [files |-> r.files \o rest.files, warn |-> r.warn \o rest.warn,
              log |-> r.log \o rest.log, exc |-> rest.exc]

\* generate_classes after its loop over module.substmts, whose result is
\* top: the root class
classes_after(T, module, package, src, top) ==
    LET prefix == search_one(T, module, "prefix")
        ns_arg == T[search_one(T, module, "namespace")].arg
        names == extract_names(T[prefix].arg)
        root == write_file(package, names.filename,
                    [class |-> "root",
                     filename |-> names.filename,
                     package |-> replace(package, "/", "."),
                     description |-> [namespace |-> ns_arg, name |-> names.name,
                                      prefix |-> T[prefix].arg],
                     source |-> src,
                     class_fields |-> [NAMESPACE |-> ns_arg, PREFIX |-> T[prefix].arg],
                     enable |-> names.name,
                     register_schema |-> names.name \o <<".","s","c","h","e","m","a">>])
    IN  IF top.exc # None THEN top
        ELSE [files |-> Append(top.files, root), warn |-> top.warn, log |-> top.log,
              exc |-> None]

\* generate_classes(module, package, src, ctx) of a module: the classes of
\* its containers and lists, then the root class
generate_classes(T, module, package, src) ==
    IF search_one(T, module, "namespace") = NoStmt \/ search_one(T, module, "prefix") = NoStmt
    THEN [files |-> <<>>, warn |-> <<>>, log |-> <<>>, exc |-> "AttributeError"]
    ELSE classes_after(T, module, package, src,
             generate_top(T, T[module].substmts, 1, package, src,
                          T[search_one(T, module, "namespace")].arg,
                          extract_names(T[search_one(T, module, "prefix")].arg).name))

----------------------------------------------------------------------------
(* Package documentation *)

IsPrefix(p, string) == Len(p) <= Len(string) /\ SubSeq(string, 1, Len(p)) = p

\* os.listdir(d) over the files written so far: the files of d and the
\* directories of d that hold files
listdir(F, d) ==
    {F[i].name : i \in {j \in DOMAIN F : F[j].dir = d}}
        \cup {split(SubSeq(F[i].dir, Len(d) + 2, Len(F[i].dir)), "/")[1] :
                 i \in {j \in DOMAIN F : IsPrefix(d \o <<"/">>, F[j].dir)}}

isdir(F, d) == \E i \in DOMAIN F : F[i].dir = d \/ IsPrefix(d \o <<"/">>, F[i].dir)

is_java_file(string) == Last(string, 5) = <<".","j","a","v","a">>

\* the elements of a set in a sequence (os.listdir returns the entries in
\* arbitrary order)
RECURSIVE SetToSeq(_)
SetToSeq(S) ==
    IF S = {} THEN <<>>
    ELSE LET x == CHOOSE x \in S : TRUE IN <<x>> \o SetToSeq(S \ {x})

\* generate_javadoc(stmts, java_files, ctx) from index i: the hierarchy, and
\* java_files without the filenames found
RECURSIVE generate_javadoc(_, _, _, _)
generate_javadoc(T, subs, i, java_files) ==
    IF i > Len(subs) THEN [hierarchy |-> <<>>, java_files |-> java_files]
    ELSE LET filename == extract_names(T[subs[i]].arg).filename
         IN  IF filename \in java_files
             THEN LET children == generate_javadoc(T, T[subs[i]].substmts, 1,
                                                   java_files \ {filename})
                      rest == generate_javadoc(T, subs, i + 1, children.java_files)
                  IN  [hierarchy |-> <<[filename |-> filename,
                                        children |-> children.hierarchy]>>
                                       \o rest.hierarchy,
                       java_files |-> rest.java_files]
             ELSE generate_javadoc(T, subs, i + 1, java_files)

\* generate_package_info(d, stmt, ctx) on the files F: the files written
RECURSIVE generate_package_info(_, _, _, _)
RECURSIVE package_info_dirs(_, _, _, _, _, _)

\* the loops over dirs and stmt.substmts, from the pair (i, j)
package_info_dirs(T, F, d, id, dirs, ij) ==
    LET i == ij[1]
        j == ij[2]
        subs == T[id].substmts
    IN  IF i > Len(dirs) THEN [files |-> <<>>, exc |-> None]
        ELSE IF j > Len(subs) THEN package_info_dirs(T, F, d, id, dirs, <<i + 1, 1>>)
        ELSE IF camelize(capitalize(T[subs[j]].arg))
                  = replace(camelize(replace(capitalize(dirs[i]), ".", "?")), "?", ".")
        THEN LET r == IF isdir(F, d \o <<"/">> \o dirs[i])
                      THEN generate_package_info(T, F, d \o <<"/">> \o dirs[i], subs[j])
                      ELSE [files |-> <<>>, exc |-> "OSError"]
                 rest == package_info_dirs(T, F \o r.files, d, id, dirs, <<i, j + 1>>)
             IN  IF r.exc # None THEN r
                 ELSE [files |-> r.files \o rest.files, exc |-> rest.exc]
        ELSE package_info_dirs(T, F, d, id, dirs, <<i, j + 1>>)

generate_package_info(T, F, d, id) ==
    LET directory_listing == listdir(F, d)
        java_files == {e \in directory_listing : is_java_file(e)}
        dirs == SetToSeq({e \in directory_listing : ~is_java_file(e)})
        class_hierarchy == generate_javadoc(T, T[id].substmts, 1, java_files).hierarchy
        info == write_file(d, <<"p","a","c","k","a","g","e","-","i","n","f","o",".","j","a","v","a">>,
                    [package |-> replace(d, "/", "."), hierarchy |-> class_hierarchy])
        r == package_info_dirs(T, Append(F, info), d, id, dirs, <<1, 1>>)
    IN  [files |-> <<info>> \o r.files, exc |-> r.exc]

----------------------------------------------------------------------------
(* SpecIdent: make_valid_identifier applied repeatedly to one statement *)

MaxLen == 4
MaxApply == 2

IdentAlphabet == {"d", "o", "g", "t", "-", "."}
IdentKeywords == {"leaf", "list", "key", "type", "typedef", "range"}

RECURSIVE Strs(_, _)
Strs(A, n) ==
    IF n = 0 THEN {<<>>}
    ELSE LET shorter == Strs(A, n - 1)
         IN  shorter \cup {Append(s, c) : s \in {t \in shorter : Len(t) = n - 1}, c \in A}

TypesUnused ==
    /\ confm_keys = <<>>
    /\ primitive_keys = <<>>
    /\ type_args = <<>>
    /\ opts = [debug |-> FALSE, verbose |-> FALSE]
    /\ outputted_warnings = <<>>
    /\ stderr = <<>>

\* the process is in the directory it was started in; there are no tasks
OsUnused ==
    /\ cwd = <<>>
    /\ directories = {}
    /\ task = <<>>

EmitUnused ==
    /\ OsUnused
    /\ stmts = <<>>
    /\ modules = <<>>
    /\ pc = "unused"
    /\ mi = 0
    /\ files = <<>>
    /\ returned = <<>>
    /\ runs = <<>>

IdentInit ==
    /\ TypesUnused
    /\ EmitUnused
    /\ stmt \in [keyword : IdentKeywords, arg : Strs(IdentAlphabet, MaxLen)]
    /\ orig = stmt.arg
    /\ once = stmt.arg
    /\ applied = 0
    /\ is_same \in (IF stmt.keyword = "range" THEN BOOLEAN ELSE {FALSE})

MakeValidIdentifier ==
    /\ applied < MaxApply
    /\ stmt' = make_valid_identifier(stmt, is_same)
    /\ once' = IF applied = 0 THEN stmt'.arg ELSE once
    /\ applied' = applied + 1
    /\ UNCHANGED <<orig, is_same>>
    /\ UNCHANGED typesVars
    /\ UNCHANGED emitVars

IdentNext == MakeValidIdentifier

SpecIdent == IdentInit /\ [][IdentNext]_vars

----------------------------------------------------------------------------
(* SpecTypes: a sequence of get_types calls on two shared lists *)

MaxCalls == 3

TypeNames ==
    {s_string, s_int8, s_int16, s_int32, s_int64, s_uint8, s_uint16, s_uint32,
     s_uint64, s_boolean, s_enumeration, s_decimal64, s_int24}

IdentUnused ==
    /\ stmt = [keyword |-> "leaf", arg |-> <<>>]
    /\ orig = <<>>
    /\ once = <<>>
    /\ applied = 0
    /\ is_same = FALSE

TypesInit ==
    /\ IdentUnused
    /\ EmitUnused
    /\ confm_keys = <<>>
    /\ primitive_keys = <<>>
    /\ type_args = <<>>
    /\ opts \in {[debug |-> FALSE, verbose |-> FALSE],
                 [debug |-> TRUE, verbose |-> FALSE],
                 [debug |-> FALSE, verbose |-> TRUE]}
    /\ outputted_warnings = <<>>
    /\ stderr = <<>>

\* one call get_types(yang_type, confm_keys, primitive_keys, ctx) of a type
\* statement whose arg is t
GetTypes(t) ==
    /\ Len(type_args) < MaxCalls
    /\ LET r == get_types([keyword |-> "type", arg |-> t], confm_keys, primitive_keys, <<>>)
           W == print_warnings(r.warn, opts,
                    [outputted_warnings |-> outputted_warnings, stderr |-> stderr])
       IN  /\ r.exc = None
           /\ confm_keys' = r.confm_keys
           /\ primitive_keys' = r.primitive_keys
           /\ outputted_warnings' = W.outputted_warnings
           /\ stderr' = W.stderr
    /\ type_args' = Append(type_args, t)
    /\ UNCHANGED opts
    /\ UNCHANGED identVars
    /\ UNCHANGED emitVars

TypesNext == \E t \in TypeNames : GetTypes(t)

SpecTypes == TypesInit /\ [][TypesNext]_vars

----------------------------------------------------------------------------
(* Spec: emit on one or two modules.  The first module holds one container *)
(* or list (top) with up to MaxLeafs leafs, an optional inner leaf-list,   *)
(* container or list, and an optional container that is only in top's      *)
(* i_children; the module may hold a leaf of its own, and may lack its     *)
(* namespace or its prefix.  The second module holds a container with one  *)
(* leaf.  The key of a list names leafs of the list and, in some trees,    *)
(* one identifier more.  Some trees hold one thing more (extra): a         *)
(* description of top, a second container in top, a list without a key     *)
(* that is only in top's i_children, before the container that is only     *)
(* there, or a top list without a key statement.                           *)

MaxLeafs == 2

directory == <<"g","e","n">>

FirstNames == {<<"i","d">>, <<"d","o">>, <<"a","-","b">>, <<"a","-","-","b">>}
PrefixNames == {<<"m">>, <<"d","o">>, <<"a","-","b">>, <<"a","-","-","b">>}
OtherNames == <<<<"i","d">>, <<"n","a","m","e">>, <<"x">>, <<"y">>, <<"z">>>>
LeafTypes == {s_string, s_int32, s_enumeration}
InnerTypes == {s_string, s_int16}

LeafId(i) == 20 + 4 * (i - 1)

\* the identifiers of keys, separated by sep
RECURSIVE key_decl(_, _, _)
key_decl(names, sep, i) ==
    IF i > Len(names) THEN <<>>
    ELSE IF i = Len(names) THEN names[i]
    ELSE names[i] \o sep \o key_decl(names, sep, i + 1)

\* the records of R that are trees of the family
ParamsOf(R) ==
    {p \in R :
        /\ \A i \in 1..MaxLeafs : i > p.n => p.types[i] = s_string
        /\ p.nkeys <= p.n + 1
        /\ p.top = "container" => p.nkeys = 1
        /\ p.nkeys = 1 => (~p.reversed /\ p.sep = <<" ">>)
        /\ p.inner = "none" => p.inner_type = s_string
        /\ p.inner # "none" => ~p.materialized
        /\ LET plain == /\ p.inner = "none" /\ ~p.materialized
                        /\ ~p.mandatory /\ ~p.unique
                        /\ p.n = 1 /\ p.types[1] = s_string
               one == /\ p.prefix = <<"m">> /\ p.lacks = "none" /\ p.second = "none"
           IN  /\ p.topleaf # "none" => (plain /\ one /\ p.name1 # <<"a","-","-","b">>)
               /\ p.name1 = <<"a","-","-","b">> => (plain /\ one)
               /\ ~one => (plain /\ p.nkeys <= p.n)
               /\ p.nkeys > p.n => (plain /\ p.topleaf = "none")
               /\ p.prefix # <<"m">> => (p.lacks = "none" /\ p.second = "none")}

\* a tree is plain (one string leaf and nothing else in top) unless the
\* module has the prefix m, a namespace, no leaf of its own and no second
\* module beside it: the trees with such a module, and the plain trees
PlainParams ==
    ParamsOf([top : {"container", "list"},
              n : 1..MaxLeafs,
              name1 : FirstNames,
              types : [1..MaxLeafs -> LeafTypes],
              mandatory : BOOLEAN,
              unique : BOOLEAN,
              nkeys : 1..MaxLeafs,
              reversed : BOOLEAN,
              sep : {<<" ">>, <<" "," ">>},
              inner : {"none", "leaf-list", "container", "list"},
              inner_type : InnerTypes,
              materialized : BOOLEAN,
              topleaf : {"none"},
              prefix : {<<"m">>},
              lacks : {"none"},
              second : {"none"},
              extra : {"none"}])
    \cup
    ParamsOf([top : {"container", "list"},
              n : {1},
              name1 : FirstNames,
              types : {[i \in 1..MaxLeafs |-> s_string]},
              mandatory : {FALSE},
              unique : {FALSE},
              nkeys : 1..MaxLeafs,
              reversed : BOOLEAN,
              sep : {<<" ">>, <<" "," ">>},
              inner : {"none"},
              inner_type : {s_string},
              materialized : {FALSE},
              topleaf : {"none", "plain", "unique"},
              prefix : PrefixNames,
              lacks : {"none", "namespace", "prefix"},
              second : {"none", "after", "before"},
              extra : {"none"}])

\* the trees that hold one thing more
ExtraParams ==
    {p \in [top : {"container", "list"},
            n : {1},
            name1 : {<<"i","d">>},
            types : {[i \in 1..MaxLeafs |-> s_string]},
            mandatory : {FALSE},
            unique : {FALSE},
            nkeys : {1},
            reversed : {FALSE},
            sep : {<<" ">>},
            inner : {"none", "container"},
            inner_type : {s_string},
            materialized : BOOLEAN,
            topleaf : {"none"},
            prefix : {<<"m">>},
            lacks : {"none"},
            second : {"none"},
            extra : {"description", "containers", "failing", "nokey"}] :
        /\ p.extra = "description" => (p.inner = "none" /\ ~p.materialized)
        /\ p.extra = "containers" =>
               (p.inner = "container" /\ ~p.materialized /\ p.top = "container")
        /\ p.extra = "failing" =>
               (p.inner = "none" /\ p.materialized /\ p.top = "container")
        /\ p.extra = "nokey" => (p.inner = "none" /\ ~p.materialized /\ p.top = "list")}

Params == PlainParams \cup ExtraParams

BuildTree(p) ==
    LET name(i) == IF i = 1 THEN p.name1 ELSE OtherNames[i]
        leafs == [i \in 1..p.n |-> LeafId(i)]
        keys == [i \in 1..p.nkeys |->
                    IF p.reversed THEN name(p.nkeys + 1 - i) ELSE name(i)]
        st(keyword, arg, parent, substmts, has, i_children) ==
            [keyword |-> keyword, arg |-> arg, parent |-> parent,
             substmts |-> substmts, has_i_children |-> has, i_children |-> i_children]
        inner == (IF p.inner = "none" THEN <<>> ELSE <<6>>)
                    \o (IF p.extra = "containers" THEN <<15>> ELSE <<>>)
        fixed ==
            (1 :> st("module", <<"m">>, NoStmt,
                     (IF p.lacks = "namespace" THEN <<>> ELSE <<2>>)
                         \o (IF p.lacks = "prefix" THEN <<>> ELSE <<3>>)
                         \o <<4>> \o (IF p.topleaf = "none" THEN <<>> ELSE <<11>>),
                     TRUE,
                     <<4>> \o (IF p.topleaf = "none" THEN <<>> ELSE <<11>>)))
         @@ (IF p.lacks = "namespace" THEN <<>>
             ELSE (2 :> st("namespace", <<"u","r","n",":","m">>, 1, <<>>, FALSE, <<>>)))
         @@ (IF p.lacks = "prefix" THEN <<>>
             ELSE (3 :> st("prefix", p.prefix, 1, <<>>, FALSE, <<>>)))
         @@ (4 :> st(p.top, <<"t","o","p">>, 1,
                     (IF p.top = "list" /\ p.extra # "nokey" THEN <<5>> ELSE <<>>)
                         \o (IF p.extra = "description" THEN <<14>> ELSE <<>>)
                         \o leafs \o inner,
                     TRUE,
                     leafs \o inner \o (IF p.extra = "failing" THEN <<16>> ELSE <<>>)
                         \o (IF p.materialized THEN <<10>> ELSE <<>>)))
        extra ==
            CASE p.extra = "description" ->
                    (14 :> st("description", <<"t","e","x","t">>, 4, <<>>, FALSE, <<>>))
              [] p.extra = "containers" ->
                    (15 :> st("container", <<"o","t","h","e","r">>, 4, <<>>, TRUE, <<>>))
              [] p.extra = "failing" ->
                    (16 :> st("list", <<"w">>, 4, <<>>, TRUE, <<>>))
              [] OTHER -> <<>>
        key == IF p.top = "list" /\ p.extra # "nokey"
               THEN (5 :> st("key", key_decl(keys, p.sep, 1), 4, <<>>, FALSE, <<>>))
               ELSE <<>>
        in == CASE p.inner = "none" -> <<>>
               [] p.inner = "leaf-list" ->
                    (6 :> st("leaf-list", <<"t","a","g">>, 4, <<9>>, FALSE, <<>>))
                 @@ (9 :> st("type", p.inner_type, 6, <<>>, FALSE, <<>>))
               [] p.inner = "container" ->
                    (6 :> st("container", <<"i","n","n","e","r">>, 4, <<8>>, TRUE, <<8>>))
                 @@ (8 :> st("leaf", <<"c">>, 6, <<9>>, FALSE, <<>>))
                 @@ (9 :> st("type", p.inner_type, 8, <<>>, FALSE, <<>>))
               [] p.inner = "list" ->
                    (6 :> st("list", <<"i","n","n","e","r">>, 4, <<7, 8>>, TRUE, <<8>>))
                 @@ (7 :> st("key", <<"c">>, 6, <<>>, FALSE, <<>>))
                 @@ (8 :> st("leaf", <<"c">>, 6, <<9>>, FALSE, <<>>))
                 @@ (9 :> st("type", p.inner_type, 8, <<>>, FALSE, <<>>))
        topleaf ==
            IF p.topleaf = "none" THEN <<>>
            ELSE (11 :> st("leaf", <<"g">>, 1,
                           <<12>> \o (IF p.topleaf = "unique" THEN <<13>> ELSE <<>>),
                           FALSE, <<>>))
              @@ (12 :> st("type", s_string, 11, <<>>, FALSE, <<>>))
              @@ (IF p.topleaf = "unique"
                  THEN (13 :> st("unique", <<"t","r","u","e">>, 11, <<>>, FALSE, <<>>))
                  ELSE <<>>)
        other ==
            IF p.second = "none" THEN <<>>
            ELSE (100 :> st("module", <<"n">>, NoStmt, <<101, 102, 103>>, TRUE, <<103>>))
              @@ (101 :> st("namespace", <<"u","r","n",":","n">>, 100, <<>>, FALSE, <<>>))
              @@ (102 :> st("prefix", <<"n">>, 100, <<>>, FALSE, <<>>))
              @@ (103 :> st("container", <<"b","o","x">>, 100, <<104>>, TRUE, <<104>>))
              @@ (104 :> st("leaf", <<"v">>, 103, <<105>>, FALSE, <<>>))
              @@ (105 :> st("type", s_string, 104, <<>>, FALSE, <<>>))
        mat == IF p.materialized
               THEN (10 :> st("container", <<"x">>, 4, <<>>, TRUE, <<>>))
               ELSE <<>>
        leaf(i) ==
            LET id == LeafId(i)
                flags == IF i = 1
                         THEN (IF p.mandatory THEN <<id + 2>> ELSE <<>>)
                                \o (IF p.unique THEN <<id + 3>> ELSE <<>>)
                         ELSE <<>>
            IN  (id :> st("leaf", name(i), 4, <<id + 1>> \o flags, FALSE, <<>>))
             @@ (id + 1 :> st("type", p.types[i], id, <<>>, FALSE, <<>>))
             @@ (IF i = 1 /\ p.mandatory
                 THEN (id + 2 :> st("mandatory", <<"t","r","u","e">>, id, <<>>, FALSE, <<>>))
                 ELSE <<>>)
             @@ (IF i = 1 /\ p.unique
                 THEN (id + 3 :> st("unique", <<"t","r","u","e">>, id, <<>>, FALSE, <<>>))
                 ELSE <<>>)
        RECURSIVE leafsFrom(_)
        leafsFrom(i) == IF i > p.n THEN <<>> ELSE leaf(i) @@ leafsFrom(i + 1)
    IN  fixed @@ key @@ in @@ mat @@ extra @@ topleaf @@ other @@ leafsFrom(1)

\* the modules emit is called on
Modules(p) ==
    CASE p.second = "none" -> <<1>>
      [] p.second = "after" -> <<1, 100>>
      [] p.second = "before" -> <<100, 1>>

EmitOpts ==
    {[no_schema |-> FALSE, debug |-> FALSE, verbose |-> FALSE],
     [no_schema |-> FALSE, debug |-> FALSE, verbose |-> TRUE],
     [no_schema |-> TRUE, debug |-> TRUE, verbose |-> FALSE]}

\* the state emit starts in, on the modules of a tree of the family P
EmitStart(P) ==
    /\ IdentUnused
    /\ confm_keys = <<>>
    /\ primitive_keys = <<>>
    /\ type_args = <<>>
    /\ opts \in EmitOpts
    /\ outputted_warnings = <<>>
    /\ stderr = <<>>
    /\ \E p \in P :
           /\ stmts = BuildTree(p)
           /\ modules = Modules(p)
    /\ pc = "schema"
    /\ mi = 1
    /\ files = <<>>
    /\ returned = <<>>
    /\ runs = <<>>

\* emit runs as it is written, in one task
InitOf(P) == EmitStart(P) /\ OsUnused

Init == InitOf(Params)

module == modules[mi]

\* the statements of T that are under the statement id, and id
RECURSIVE Under(_, _, _)
Under(T, id, n) ==
    n = id \/ (T[n].parent # NoStmt /\ Under(T, id, T[n].parent))

\* the module tree that generate_classes is called on
Tree(T, id) == [n \in {k \in DOMAIN T : Under(T, id, k)} |-> T[n]]

\* an AttributeError leaves emit
Raise ==
    /\ pc' = "raised"
    /\ UNCHANGED mi

\* emit, lines 158-173: the external schema of the module
EmitSchema ==
    /\ pc = "schema"
    /\ ~opts.no_schema
    /\ LET namespace == search_one(stmts, module, "namespace")
           prefix == search_one(stmts, module, "prefix")
           ns == stmts[namespace].arg
           name == capitalize(stmts[prefix].arg)
       IN  IF namespace = NoStmt \/ prefix = NoStmt
           THEN Raise /\ UNCHANGED files
           ELSE /\ files' = Append(files,
                        write_file(replace(directory, ".", "/"), name \o <<".","s","c","h","e","m","a">>,
                            [schema |-> <<schema_node(stmts, module, <<"/">>, ns)>>
                                \o schema_nodes(stmts, stmts[module].substmts, 1,
                                                <<"/">>, ns)]))
                /\ pc' = "normalize"
                /\ UNCHANGED mi
    /\ UNCHANGED <<stmts, modules, returned, opts, outputted_warnings, stderr>>
    /\ UNCHANGED <<confm_keys, primitive_keys, type_args>>
    /\ UNCHANGED identVars
    /\ UNCHANGED runs
    /\ UNCHANGED osVars

\* emit with --jpyang-no-schema: no external schema
EmitNoSchema ==
    /\ pc = "schema"
    /\ opts.no_schema
    /\ pc' = "normalize"
    /\ UNCHANGED <<stmts, modules, mi, files, returned>>
    /\ UNCHANGED typesVars
    /\ UNCHANGED identVars
    /\ UNCHANGED runs
    /\ UNCHANGED osVars

\* emit, line 175: module = make_valid_identifiers(module)
EmitNormalize ==
    /\ pc = "normalize"
    /\ stmts' = make_valid_identifiers(stmts, module, is_same)
    /\ pc' = "classes"
    /\ UNCHANGED <<modules, mi, files, returned>>
    /\ UNCHANGED typesVars
    /\ UNCHANGED identVars
    /\ UNCHANGED runs
    /\ UNCHANGED osVars

\* EmitClasses that writes no unit once a warning key is in outputted_warnings
EmitClasses_unless_warned ==
    /\ pc = "classes"
    /\ \E r \in {generate_classes(stmts, module, directory, stmts[module].arg)} :
         \E W \in {print_warnings(r.warn, opts,
                      [outputted_warnings |-> outputted_warnings, stderr |-> stderr])} :
           /\ files' = files \o (IF outputted_warnings = <<>> THEN r.files ELSE <<>>)
           /\ returned' = Append(returned,
                              [call |-> "generate_classes", module |-> module,
                               tree |-> Tree(stmts, module)]) \o r.log
           /\ outputted_warnings' = W.outputted_warnings
           /\ stderr' = W.stderr
           /\ IF r.exc # None THEN Raise
              ELSE IF mi < Len(modules)
              THEN pc' = "schema" /\ mi' = mi + 1
              ELSE pc' = "package_info" /\ mi' = 1
    /\ UNCHANGED <<stmts, modules, opts>>
    /\ UNCHANGED <<confm_keys, primitive_keys, type_args>>
    /\ UNCHANGED identVars
    /\ UNCHANGED runs
    /\ UNCHANGED osVars

\* emit, lines 176-178: generate_classes(module, directory, src, ctx)
EmitClasses ==
    /\ pc = "classes"
    /\ \E r \in {generate_classes(stmts, module, directory, stmts[module].arg)} :
         \E W \in {print_warnings(r.warn, opts,
                      [outputted_warnings |-> outputted_warnings, stderr |-> stderr])} :
           /\ files' = files \o r.files
           /\ returned' = Append(returned,
                              [call |-> "generate_classes", module |-> module,
                               tree |-> Tree(stmts, module)]) \o r.log
           /\ outputted_warnings' = W.outputted_warnings
           /\ stderr' = W.stderr
           /\ IF r.exc # None THEN Raise
              ELSE IF mi < Len(modules)
              THEN pc' = "schema" /\ mi' = mi + 1
              ELSE pc' = "package_info" /\ mi' = 1
    /\ UNCHANGED <<stmts, modules, opts>>
    /\ UNCHANGED <<confm_keys, primitive_keys, type_args>>
    /\ UNCHANGED identVars
    /\ UNCHANGED runs
    /\ UNCHANGED osVars

\* emit, lines 185-188: the second loop over modules normalizes the module
\* again and writes the package documentation
EmitPackageInfo ==
    /\ pc = "package_info"
    /\ LET T == make_valid_identifiers(stmts, module, is_same)
           r == generate_package_info(T, files, replace(directory, ".", "/"), module)
       IN  /\ stmts' = T
           /\ files' = files \o r.files
           /\ IF r.exc # None THEN Raise
              ELSE IF mi < Len(modules)
              THEN pc' = "package_info" /\ mi' = mi + 1
              ELSE pc' = "finish" /\ UNCHANGED mi
    /\ UNCHANGED <<modules, returned>>
    /\ UNCHANGED typesVars
    /\ UNCHANGED identVars
    /\ UNCHANGED runs
    /\ UNCHANGED osVars

\* emit, lines 189-202: javadoc is not run without --jpyang-javadoc; a run on
\* other than one module ends with a warning
EmitFinish ==
    /\ pc = "finish"
    /\ LET W == IF Len(modules) # 1
                THEN print_warning(
                         [text |-> "Generating code for several modules has not been tested thoroughly.",
                          arg |-> <<>>],
                         <<>>, opts,
                         [outputted_warnings |-> outputted_warnings, stderr |-> stderr])
                ELSE [outputted_warnings |-> outputted_warnings, stderr |-> stderr]
       IN  /\ outputted_warnings' = W.outputted_warnings
           /\ stderr' = W.stderr
    /\ pc' = "done"
    /\ UNCHANGED <<stmts, modules, mi, files, returned, opts>>
    /\ UNCHANGED <<confm_keys, primitive_keys, type_args>>
    /\ UNCHANGED identVars
    /\ UNCHANGED runs
    /\ UNCHANGED osVars

Next ==
    \/ EmitSchema
    \/ EmitNoSchema
    \/ EmitNormalize
    \/ EmitClasses
    \/ EmitPackageInfo
    \/ EmitFinish

Spec == Init /\ [][Next]_vars

----------------------------------------------------------------------------
(* SpecAgain: emit is called again, up to MaxRuns times in all, on the same *)
(* statements, which the calls before have normalized, with the same       *)
(* options and with outputted_warnings as the calls before have left it.   *)

MaxRuns == 2

\* emit(ctx, modules, fd) once more, after emit has returned
EmitAgain ==
    /\ pc = "done"
    /\ Len(runs) + 1 < MaxRuns
    /\ runs' = Append(runs, Len(files))
    /\ UNCHANGED osVars
    /\ pc' = "schema"
    /\ mi' = 1
    /\ UNCHANGED <<stmts, modules, files, returned>>
    /\ UNCHANGED typesVars
    /\ UNCHANGED identVars

NextAgain ==
    \/ EmitSchema
    \/ EmitNoSchema
    \/ EmitNormalize
    \/ EmitClasses
    \/ EmitPackageInfo
    \/ EmitFinish
    \/ EmitAgain

\* emit returns, and can be called again, for the modules in which top is a
\* container; mandatory and unique are read for the schema document only
InitAgain ==
    InitOf({p \in Params : p.top = "container" /\ ~p.mandatory /\ ~p.unique})

SpecAgain == InitAgain /\ [][NextAgain]_vars

----------------------------------------------------------------------------
(* SpecWarn: a sequence of up to MaxWarnings calls of print_warning in one *)
(* run, each one of the calls the module makes: without ctx and without a  *)
(* key (emit, on a tree that is no module), with ctx and without a key     *)
(* (emit, on several modules), without ctx and with a key (emit, on an     *)
(* error tag of the context), with ctx and a key (get_types with and       *)
(* without a message, write_file).  returned is the log of the calls.      *)

MaxWarnings == 3

WarnCalls ==
    {[msg |-> [text |-> "Ignoring schema tree rooted at - not a module", arg |-> <<"s","u","b","m","o","d","u","l","e"," ","s">>],
      key |-> <<>>, ctx |-> FALSE],
     [msg |-> [text |-> "Generating code for several modules has not been tested thoroughly.",
               arg |-> <<>>],
      key |-> <<>>, ctx |-> TRUE],
     [msg |-> [text |-> "generated class hierarchy might be incomplete.", arg |-> <<"t","y","p","e","_","n","o","t","_","f","o","u","n","d">>],
      key |-> <<"T","Y","P","E","_","N","O","T","_","F","O","U","N","D">>, ctx |-> FALSE],
     [msg |-> NoMsg, key |-> s_enumeration, ctx |-> TRUE],
     [msg |-> [text |-> "Parsed as an integer.", arg |-> s_int24],
      key |-> s_int24, ctx |-> TRUE],
     [msg |-> [text |-> "Unable to change directory", arg |-> directory],
      key |-> directory, ctx |-> TRUE]}

WarnInit ==
    /\ IdentUnused
    /\ EmitUnused
    /\ confm_keys = <<>>
    /\ primitive_keys = <<>>
    /\ type_args = <<>>
    /\ opts \in {[debug |-> FALSE, verbose |-> FALSE],
                 [debug |-> TRUE, verbose |-> FALSE],
                 [debug |-> FALSE, verbose |-> TRUE]}
    /\ outputted_warnings = <<>>
    /\ stderr = <<>>

\* one call print_warning(msg, key, ctx) or print_warning(msg, key)
PrintWarning(w) ==
    /\ Len(returned) < MaxWarnings
    /\ \E W \in {print_warning(w.msg, w.key, IF w.ctx THEN opts ELSE PyNone,
                     [outputted_warnings |-> outputted_warnings, stderr |-> stderr])} :
           /\ outputted_warnings' = W.outputted_warnings
           /\ stderr' = W.stderr
    /\ returned' = Append(returned,
                       [call |-> "print_warning", msg |-> w.msg, key |-> w.key, ctx |-> w.ctx])
    /\ UNCHANGED <<confm_keys, primitive_keys, type_args, opts>>
    /\ UNCHANGED <<stmts, modules, pc, mi, files, runs>>
    /\ UNCHANGED osVars
    /\ UNCHANGED identVars

WarnNext == \E w \in WarnCalls : PrintWarning(w)

SpecWarn == WarnInit /\ [][WarnNext]_vars

----------------------------------------------------------------------------
(* SpecTasks: the body of the first loop of emit (lines 157-180) is run    *)
(* for each module as a task of its own, the tasks interleaved.  A task    *)
(* first generates: the schema of its module, the normalization and the    *)
(* classes, which gives the write_file calls of the module in order; the   *)
(* warnings of the module are printed at that step.  Each write_file call  *)
(* is then run as its system calls, one step each: os.getcwd, os.makedirs, *)
(* os.chdir(d), os.chdir(wd), open.  A path is relative to the directory   *)
(* pyang is started in, which is the empty path.                           *)

\* the path that the name d has in the directory at
resolve(at, d) == IF at = <<>> THEN d ELSE at \o <<"/">> \o d

\* the path is a directory: the directory pyang is started in, a directory
\* that os.makedirs has made, or one on the way to it
exists(D, path) ==
    \/ path = <<>>
    \/ \E m \in D :
           \/ path = m
           \/ /\ Len(path) < Len(m)
              /\ SubSeq(m, 1, Len(path)) = path
              /\ m[Len(path) + 1] = "/"

\* the modules of two tasks: both have a namespace and a prefix, and the top
\* of the first is a container
TaskParams ==
    {p \in Params : /\ p.second = "after" /\ p.lacks = "none"
                    /\ p.top = "container" /\ p.name1 = <<"i","d">>}

TasksInit ==
    /\ EmitStart(TaskParams)
    /\ cwd = <<>>
    /\ directories = {}
    /\ task = [t \in DOMAIN modules |->
                  [pc |-> "generate", wd |-> <<>>, units |-> <<>>, next |-> 1,
                   exc |-> None]]

\* the write_file call the task t is in
unit(t) == task[t].units[task[t].next]

\* emit, lines 157-178 for modules[t]: the write_file calls of the schema
\* (from the module as it is given) and of generate_classes (from the
\* normalized module)
TaskGenerate(t) ==
    /\ task[t].pc = "generate"
    /\ LET m == modules[t]
           ns == stmts[search_one(stmts, m, "namespace")].arg
           name == capitalize(stmts[search_one(stmts, m, "prefix")].arg)
           schema ==
               IF opts.no_schema THEN <<>>
               ELSE <<write_file(replace(directory, ".", "/"), name \o <<".","s","c","h","e","m","a">>,
                          [schema |-> <<schema_node(stmts, m, <<"/">>, ns)>>
                              \o schema_nodes(stmts, stmts[m].substmts, 1, <<"/">>, ns)])>>
       IN  \E T \in {make_valid_identifiers(stmts, m, is_same)} :
             \E r \in {generate_classes(T, m, directory, T[m].arg)} :
               \E W \in {print_warnings(r.warn, opts,
                            [outputted_warnings |-> outputted_warnings, stderr |-> stderr])} :
                 /\ stmts' = T
                 /\ outputted_warnings' = W.outputted_warnings
                 /\ stderr' = W.stderr
                 /\ task' = [task EXCEPT ![t] =
                                [pc |-> IF schema \o r.files # <<>> THEN "getcwd"
                                        ELSE IF r.exc # None THEN "raised" ELSE "done",
                                 wd |-> <<>>, units |-> schema \o r.files, next |-> 1,
                                 exc |-> r.exc]]
    /\ UNCHANGED <<modules, pc, mi, files, returned, runs, cwd, directories, opts>>
    /\ UNCHANGED <<confm_keys, primitive_keys, type_args>>
    /\ UNCHANGED identVars

\* write_file, line 250: wd = os.getcwd()
Getcwd(t) ==
    /\ task[t].pc = "getcwd"
    /\ task' = [task EXCEPT ![t].wd = cwd, ![t].pc = "makedirs"]
    /\ UNCHANGED <<stmts, modules, pc, mi, files, returned, runs, cwd, directories>>
    /\ UNCHANGED typesVars
    /\ UNCHANGED identVars

\* write_file, lines 251-257: os.makedirs(d, 0777); a directory that exists
\* is passed
Makedirs(t) ==
    /\ task[t].pc = "makedirs"
    /\ directories' = directories \cup {resolve(cwd, unit(t).dir)}
    /\ task' = [task EXCEPT ![t].pc = "chdir"]
    /\ UNCHANGED <<stmts, modules, pc, mi, files, returned, runs, cwd>>
    /\ UNCHANGED typesVars
    /\ UNCHANGED identVars

\* write_file, lines 258-259: os.chdir(d); without the directory the OSError
\* is raised again, after os.chdir(wd) of the finally clause
Chdir(t) ==
    /\ task[t].pc = "chdir"
    /\ IF exists(directories, resolve(cwd, unit(t).dir))
       THEN /\ cwd' = resolve(cwd, unit(t).dir)
            /\ task' = [task EXCEPT ![t].pc = "restore"]
       ELSE /\ cwd' = task[t].wd
            /\ task' = [task EXCEPT ![t].pc = "raised", ![t].exc = "OSError"]
    /\ UNCHANGED <<stmts, modules, pc, mi, files, returned, runs, directories>>
    /\ UNCHANGED typesVars
    /\ UNCHANGED identVars

\* write_file, lines 267-270: finally: os.chdir(wd)
Restore(t) ==
    /\ task[t].pc = "restore"
    /\ cwd' = task[t].wd
    /\ task' = [task EXCEPT ![t].pc = "open"]
    /\ UNCHANGED <<stmts, modules, pc, mi, files, returned, runs, directories>>
    /\ UNCHANGED typesVars
    /\ UNCHANGED identVars

\* write_file, lines 271-272: open(d + '/' + file_name, 'w+') and write; the
\* file is written where the path leads from the working directory
Open(t) ==
    /\ task[t].pc = "open"
    /\ IF exists(directories, resolve(cwd, unit(t).dir))
       THEN /\ files' = Append(files, [dir |-> resolve(cwd, unit(t).dir),
                                       name |-> unit(t).name,
                                       content |-> unit(t).content])
            /\ task' = [task EXCEPT
                           ![t].next = @ + 1,
                           ![t].pc = IF task[t].next < Len(task[t].units) THEN "getcwd"
                                     ELSE IF task[t].exc # None THEN "raised"
                                     ELSE "done"]
       ELSE /\ task' = [task EXCEPT ![t].pc = "raised", ![t].exc = "IOError"]
            /\ UNCHANGED files
    /\ UNCHANGED <<stmts, modules, pc, mi, returned, runs, cwd, directories>>
    /\ UNCHANGED typesVars
    /\ UNCHANGED identVars

TasksNext ==
    \E t \in DOMAIN task :
        \/ TaskGenerate(t)
        \/ Getcwd(t)
        \/ Makedirs(t)
        \/ Chdir(t)
        \/ Restore(t)
        \/ Open(t)

SpecTasks == TasksInit /\ [][TasksNext]_vars

----------------------------------------------------------------------------
(* The reserved words of Java: the keywords and the literals true, false,  *)
(* null.  const and goto are keywords of the language.                     *)
JavaReserved ==
    (java_reserved_words \ {<<"c","o","n","s","t","*">>, <<"g","o","t","o","*">>})
        \cup {<<"c","o","n","s","t">>, <<"g","o","t","o">>}

\* C1: normalizing an already-normalized identifier of a node that is not of
\* a type-family kind returns it unchanged: the second make_valid_identifier
\* leaves the result of the first as it is (stated for the identifiers that
\* begin and end with a letter, on nodes that are no range).
C1_Idempotent ==
    (/\ applied = 2
     /\ ~HasType(stmt.keyword)
     /\ stmt.keyword # "range"
     /\ orig # <<>>
     /\ InSeq(orig[1], LowerCase)
     /\ InSeq(orig[Len(orig)], LowerCase)) =>
        stmt.arg = once

\* C2: an identifier whose camelized form is a reserved word w of Java is
\* returned as "J" followed by w, and every other identifier is returned as
\* its camelized form (nodes that are camelized and escaped: not of a
\* type-family kind, not a range).
C2_ReservedEscaped ==
    (applied = 1 /\ ~HasType(stmt.keyword) /\ stmt.keyword # "range") =>
        LET w == camelize(orig)
        IN  IF w \in JavaReserved
            THEN stmt.arg = <<"J">> \o w
            ELSE stmt.arg = w

\* C3: get_types is total and deterministic: every type name can be mapped,
\* every call appends exactly one entry to confm_keys and exactly one to
\* primitive_keys, and two calls with the same type name append the same
\* entries, whatever warnings were printed before.
C3_TotalDeterministic ==
    /\ \A t \in TypeNames :
           get_types([keyword |-> "type", arg |-> t], confm_keys, primitive_keys,
                     <<>>).exc = None
    /\ Len(confm_keys) = Len(type_args)
    /\ Len(primitive_keys) = Len(type_args)
    /\ \A i, j \in DOMAIN type_args :
           type_args[i] = type_args[j] =>
               /\ confm_keys[i] = confm_keys[j]
               /\ primitive_keys[i] = primitive_keys[j]

\* the same unmapped type mapped twice: the first call printed the warning,
\* the second found it printed already
C3_Witness ==
    /\ Len(type_args) >= 2
    /\ type_args[1] = s_enumeration
    /\ type_args[2] = s_enumeration
    /\ outputted_warnings = <<s_enumeration>>
    /\ Len(stderr) = 1
    /\ Len(confm_keys) = 2
    /\ Len(primitive_keys) = 2

\* the type names get_types maps to a type of their own
MappedTypeNames ==
    {s_string, s_int8, s_int16, s_int32, s_int64, s_uint8, s_uint16, s_uint32,
     s_uint64, s_boolean}

\* C4: the pair of types get_types appends for a type name without a mapping
\* is the pair it appends for "string".
C4_UnmappedIsStringPair ==
    \A i, j \in DOMAIN type_args :
        (type_args[i] \notin MappedTypeNames /\ type_args[j] = s_string) =>
            /\ confm_keys[i][1] = confm_keys[j][1]
            /\ primitive_keys[i][1] = primitive_keys[j][1]

----------------------------------------------------------------------------
(* The class generator's calls, as emit leaves them in returned *)

\* the identifiers of a key declaration: its parts between whitespace
RECURSIVE TokensFrom(_, _, _)
TokensFrom(string, i, token) ==
    LET ended == IF token = <<>> THEN <<>> ELSE <<token>>
    IN  IF i > Len(string) THEN ended
        ELSE IF string[i] = " " THEN ended \o TokensFrom(string, i + 1, <<>>)
        ELSE TokensFrom(string, i + 1, Append(token, string[i]))

Tokens(string) == TokensFrom(string, 1, <<>>)

\* generate_classes has returned or raised
ClassesEnded == pc \in {"package_info", "raised"}

Calls(call) == {i \in DOMAIN returned : returned[i].call = call}

\* the methods of generator m in the access methods of a generate_child call
Methods(e, m) == SelectSeq(e.access_methods, LAMBDA x : x.method = m)

MarkOps == {"replace", "merge", "create", "delete"}

\* the types get_types maps the type of statement id to
TypesOf(T, id) == get_types(Node(T, search_one(T, id, "type")), <<>>, <<>>, <<>>)

\* C5: for a list whose key declaration is a whitespace-separated sequence
\* of identifiers k1..kn, each the name of a leaf child, extract_keys returns
\* n pairs in confm_keys and n in primitive_keys, in the order k1..kn, each
\* the types of that leaf, and only_strings is true iff every key's primitive
\* type is String.
C5_ExtractKeys ==
    ClassesEnded =>
        \A c \in Calls("extract_keys") :
            LET e == returned[c]
                key == search_one(stmts, e.stmt, "key")
                k == Tokens(stmts[key].arg)
                leaf(i) == search_one_arg(stmts, e.stmt, "leaf", k[i])
            IN  (/\ key # NoStmt
                 /\ \A i \in DOMAIN k :
                        leaf(i) # NoStmt /\ search_one(stmts, leaf(i), "type") # NoStmt)
                => /\ e.exc = None
                   /\ Len(e.confm_keys) = Len(k)
                   /\ Len(e.primitive_keys) = Len(k)
                   /\ \A i \in DOMAIN k :
                          /\ e.confm_keys[i] = <<TypesOf(stmts, leaf(i)).confm_keys[1][1], k[i]>>
                          /\ e.primitive_keys[i]
                               = <<TypesOf(stmts, leaf(i)).primitive_keys[1][1], k[i]>>
                   /\ (e.only_strings # 0) <=>
                          \A i \in DOMAIN k : e.primitive_keys[i][1] = <<"S","t","r","i","n","g">>

\* the class files written for the statement id
ClassFiles(id) ==
    {i \in DOMAIN files :
        /\ files[i].name = extract_names(stmts[id].arg).filename
        /\ "constructors" \in DOMAIN files[i].content}

\* C6: the class of a list has exactly 4 constructors (no arguments, ConfM
\* keys, String keys, primitive keys) when a key is not string-like, and
\* exactly 3 (none with primitive keys) when all keys are string-like.
C6_ListConstructors ==
    ClassesEnded =>
        \A c \in Calls("extract_keys") :
            LET e == returned[c]
            IN  e.exc = None =>
                    /\ ClassFiles(e.stmt) # {}
                    /\ \A f \in ClassFiles(e.stmt) :
                           Len(files[f].content.constructors)
                               = IF e.only_strings = 0 THEN 4 ELSE 3

\* the container or list id is nested under the module through declared
\* containers and lists
RECURSIVE Declared(_)
Declared(id) ==
    LET parent == stmts[id].parent
    IN  /\ parent # NoStmt
        /\ InSeq(id, stmts[parent].substmts)
        /\ \/ stmts[parent].keyword = "module"
           \/ /\ stmts[parent].keyword \in {"container", "list"}
              /\ Declared(parent)

\* the module m has a namespace and a prefix
Complete(m) ==
    search_one(stmts, m, "namespace") # NoStmt /\ search_one(stmts, m, "prefix") # NoStmt

\* C7: when the generation of the classes of a module that has a namespace
\* and a prefix has ended, a unit has been written for every container and
\* list nested under the module through declared containers and lists, named
\* by its capitalized identifier.
C7_UnitPerContainerOrList ==
    (ClassesEnded /\ Len(modules) = 1 /\ Complete(module)) =>
        \A id \in DOMAIN stmts :
            (stmts[id].keyword \in {"container", "list"} /\ Declared(id)) =>
                \E f \in DOMAIN files :
                    files[f].name = capitalize(stmts[id].arg) \o <<".","j","a","v","a">>

C9_LeafListMembers ==
    \A c \in Calls("generate_child") :
        LET e == returned[c]
            types == TypesOf(stmts, e.sub)
            deleters == Methods(e, "delete_stmt")
            marks == Methods(e, "mark")
        IN  e.keyword = "leaf-list" =>
                /\ Len(Methods(e, "child_iterator")) = 1
                /\ Len(deleters) = 2
                /\ \E i, j \in DOMAIN deleters :
                       /\ ~deleters[i].string
                       /\ deleters[i].arguments[1][1] = types.confm_keys[1][1]
                       /\ deleters[j].string
                       /\ deleters[j].arguments[1][1] = <<"S","t","r","i","n","g">>
                /\ Len(Methods(e, "add_value")) = 1
                /\ Len(marks) = 8
                /\ \A op \in MarkOps :
                       \E i, j \in DOMAIN marks :
                           /\ i # j
                           /\ marks[i].op = op
                           /\ marks[i].argument = types.confm_keys[1][1]
                           /\ marks[j].op = op
                           /\ marks[j].argument = <<"S","t","r","i","n","g">>
                /\ Len(Methods(e, "set_value"))
                       = IF types.primitive_keys[1][1] = <<"S","t","r","i","n","g">> THEN 2 ELSE 3

\* generate_child has returned for a leaf-list of type int16, with three
\* set_value methods
C9_Witness ==
    \E c \in Calls("generate_child") :
        /\ returned[c].keyword = "leaf-list"
        /\ TypesOf(stmts, returned[c].sub).primitive_keys[1][1] = <<"s","h","o","r","t">>
        /\ Len(Methods(returned[c], "set_value")) = 3
        /\ Len(Methods(returned[c], "mark")) = 8

\* the "node" elements of the schema file whose tagpath is path
SchemaNodes(path) ==
    {n \in UNION {{files[f].content.schema[i] : i \in DOMAIN files[f].content.schema} :
                     f \in {g \in DOMAIN files : "schema" \in DOMAIN files[g].content}} :
        n.tagpath = path}

\* C10: in the schema, a leaf that is one of the declared keys of its list,
\* of one key or of several, has min_occurs 1 and max_occurs 1, whatever its
\* mandatory and unique substatements are.
C10_KeyLeafCardinality ==
    (pc = "normalize" /\ ~opts.no_schema) =>
        \A id \in DOMAIN stmts :
            LET parent == stmts[id].parent
                key == search_one(stmts, parent, "key")
            IN  (/\ stmts[id].keyword = "leaf"
                 /\ parent # NoStmt
                 /\ stmts[parent].keyword = "list"
                 /\ stmts[parent].parent = module
                 /\ key # NoStmt
                 /\ InSeq(stmts[id].arg, Tokens(stmts[key].arg)))
                => /\ SchemaNodes(<<"/">> \o stmts[parent].arg \o <<"/">> \o stmts[id].arg \o <<"/">>) # {}
                   /\ \A n \in SchemaNodes(<<"/">> \o stmts[parent].arg \o <<"/">>
                                               \o stmts[id].arg \o <<"/">>) :
                          n.min_occurs = "1" /\ n.max_occurs = "1"

\* the tagpath of the statement id in the schema
RECURSIVE Path(_)
Path(id) ==
    IF stmts[id].parent = NoStmt THEN <<"/">>
    ELSE Path(stmts[id].parent) \o stmts[id].arg \o <<"/">>

\* the statement id has a "node" element: it and the statements above it are
\* in the schema
RECURSIVE InSchema(_)
InSchema(id) ==
    /\ in_schema(stmts[id])
    /\ \/ stmts[id].parent = NoStmt
       \/ /\ InSeq(id, stmts[stmts[id].parent].substmts)
          /\ InSchema(stmts[id].parent)

\* the module the statement id is in
RECURSIVE Root(_)
Root(id) == IF stmts[id].parent = NoStmt THEN id ELSE Root(stmts[id].parent)

HasTrue(id, keyword) ==
    \E i \in DOMAIN stmts[id].substmts :
        /\ stmts[stmts[id].substmts[i]].keyword = keyword
        /\ stmts[stmts[id].substmts[i]].arg = <<"t","r","u","e">>

ChildOfContainerOrList(id) ==
    /\ stmts[id].parent # NoStmt
    /\ stmts[stmts[id].parent].keyword \in {"container", "list"}

IsDeclaredKey(id) ==
    /\ stmts[id].keyword = "leaf"
    /\ stmts[id].parent # NoStmt
    /\ \E i \in DOMAIN stmts[stmts[id].parent].substmts :
           LET k == stmts[stmts[id].parent].substmts[i]
           IN  stmts[k].keyword = "key" /\ InSeq(stmts[id].arg, Tokens(stmts[k].arg))

\* the schema of the module is written and the tree of the module is as it
\* was when it was written
SchemaWritten == pc = "normalize" /\ ~opts.no_schema

\* C11: in the schema, max_occurs is 1 for every node that has unique true,
\* or is a child of a container or list, or is a container; it is -1 only
\* for a node that is none of these and neither a module nor a key.
C11_MaxOccurs ==
    SchemaWritten =>
        \A id \in DOMAIN stmts :
            (InSchema(id) /\ Root(id) = module) =>
                /\ SchemaNodes(Path(id)) # {}
                /\ \A n \in SchemaNodes(Path(id)) :
                       LET one == \/ HasTrue(id, "unique")
                                  \/ ChildOfContainerOrList(id)
                                  \/ stmts[id].keyword = "container"
                       IN  /\ one => n.max_occurs = "1"
                           /\ n.max_occurs = "-1" =>
                                  /\ ~one
                                  /\ stmts[id].keyword # "module"
                                  /\ ~IsDeclaredKey(id)
                           /\ n.max_occurs \in {"1", "-1"}

\* the schema of a module with a list and a leaf with unique true: the list
\* has max_occurs -1, the leaf 1
C11_Witness ==
    /\ SchemaWritten
    /\ \E id \in DOMAIN stmts :
           /\ stmts[id].keyword = "leaf"
           /\ stmts[stmts[id].parent].keyword = "module"
           /\ HasTrue(id, "unique")
           /\ \E n \in SchemaNodes(Path(id)) : n.max_occurs = "1"
    /\ \E id \in DOMAIN stmts :
           /\ stmts[id].keyword = "list"
           /\ \E n \in SchemaNodes(Path(id)) : n.max_occurs = "-1"

\* emit has returned or an exception has left it
EmitEnded == pc \in {"done", "raised"}

\* the schema document, the class units and the root unit of the module m
\* are written
Produced(m) ==
    LET prefix == stmts[search_one(stmts, m, "prefix")].arg
    IN  /\ opts.no_schema \/
               \E f \in DOMAIN files :
                   /\ "schema" \in DOMAIN files[f].content
                   /\ files[f].name = capitalize(prefix) \o <<".","s","c","h","e","m","a">>
        /\ \E f \in DOMAIN files :
               /\ "register_schema" \in DOMAIN files[f].content
               /\ files[f].name = extract_names(prefix).filename
        /\ \A id \in DOMAIN stmts :
               (Root(id) = m /\ stmts[id].keyword \in {"container", "list"} /\ Declared(id))
                   => \E f \in DOMAIN files :
                          /\ "constructors" \in DOMAIN files[f].content
                          /\ files[f].name = capitalize(stmts[id].arg) \o <<".","j","a","v","a">>

\* C12: when emit on several modules has ended and one of the modules lacks
\* its namespace or its prefix, the schema document, the class units and the
\* root unit of every other module are written.
C12_FailureIsolation ==
    (EmitEnded /\ \E i \in DOMAIN modules : ~Complete(modules[i])) =>
        \A i \in DOMAIN modules : Complete(modules[i]) => Produced(modules[i])

\* emit on a module with a namespace and a prefix and then on a module that
\* lacks one of them has ended, and the units of the first are written
C12_After ==
    /\ EmitEnded
    /\ Len(modules) = 2
    /\ Complete(modules[1]) /\ ~Complete(modules[2])
    /\ Produced(modules[1])

\* the key of the list id names an identifier that no leaf of the list has
MissingKeyLeaf(id) ==
    LET key == search_one(stmts, id, "key")
    IN  /\ key # NoStmt
        /\ \E i \in DOMAIN Tokens(stmts[key].arg) :
               search_one_arg(stmts, id, "leaf", Tokens(stmts[key].arg)[i]) = NoStmt

\* C13: when the key of a list names an identifier that no leaf child of
\* the list has, extract_keys ends in an error of its own, which is neither
\* a return nor the AttributeError of a None dereference, and no unit is
\* written for the list.
C13_MissingKeyLeaf ==
    \A c \in Calls("extract_keys") :
        MissingKeyLeaf(returned[c].stmt) =>
            /\ returned[c].exc \notin {None, "AttributeError"}
            /\ ClassFiles(returned[c].stmt) = {}

\* extract_keys on a list whose key names a missing leaf has raised
\* AttributeError and no unit is written for the list
C13_Raised ==
    \E c \in Calls("extract_keys") :
        /\ MissingKeyLeaf(returned[c].stmt)
        /\ returned[c].exc = "AttributeError"
        /\ ClassFiles(returned[c].stmt) = {}

\* the root units written
RootFiles == {f \in DOMAIN files : "register_schema" \in DOMAIN files[f].content}

\* the schema documents written
SchemaFiles == {f \in DOMAIN files : "schema" \in DOMAIN files[f].content}

\* C14: the name of the file registerSchema() of a root class reads is the
\* name of a schema document emit has written, in the directory of the root
\* class, whatever the prefix of the module is.
C14_RegisterSchemaFile ==
    ~opts.no_schema =>
        \A f \in RootFiles :
            \E g \in SchemaFiles :
                /\ files[g].name = files[f].content.register_schema
                /\ files[g].dir = files[f].dir

\* the root class of a module of prefix m is written and registerSchema()
\* reads the schema document M.schema that emit has written
C14_Plain ==
    /\ ~opts.no_schema
    /\ \E f \in RootFiles : \E g \in SchemaFiles :
           /\ files[f].content.class_fields.PREFIX = <<"m">>
           /\ files[g].name = files[f].content.register_schema
           /\ files[g].name = <<"M",".","s","c","h","e","m","a">>

\* the class units, root units and package documentation among the
\* write_file calls from the one after a up to b
Units(a, b) ==
    SelectSeq(SubSeq(files, a + 1, b), LAMBDA f : "schema" \notin DOMAIN f.content)

\* the second call of emit has returned
SecondEnded == pc = "done" /\ Len(runs) = 1

\* the trees of the generate_classes calls, in order
Generated == SelectSeq(returned, LAMBDA e : e.call = "generate_classes")

\* the generate_classes calls of the second call of emit were on the trees
\* of those of the first
SameTrees ==
    /\ Len(Generated) = 2 * Len(modules)
    /\ \A i \in DOMAIN modules : Generated[Len(modules) + i] = Generated[i]

Unsupported(t) ==
    {i \in DOMAIN stderr :
        /\ stderr[i].text = "No support for type, defaulting to string."
        /\ stderr[i].arg = t}

\* C16: over a sequence of get_types calls the warning about a type name
\* without a mapping is printed at most once, and the types a later call
\* appends for that name are those the first call appended.
C16_UnsupportedOnce ==
    /\ \A t \in TypeNames : Cardinality(Unsupported(t)) <= 1
    /\ \A i, j \in DOMAIN type_args :
           (i < j /\ type_args[i] = type_args[j] /\ type_args[i] \notin MappedTypeNames) =>
               /\ confm_keys[j][1] = confm_keys[i][1]
               /\ primitive_keys[j][1] = primitive_keys[i][1]

\* get_types was called twice on a type name without a mapping, with debug
\* or verbose set: one warning is printed and both calls appended String
C16_Witness ==
    /\ opts.debug \/ opts.verbose
    /\ \E i, j \in DOMAIN type_args :
           /\ i < j
           /\ type_args[i] = s_enumeration
           /\ type_args[j] = s_enumeration
           /\ primitive_keys[i][1] = <<"S","t","r","i","n","g">>
           /\ primitive_keys[j][1] = <<"S","t","r","i","n","g">>
    /\ Cardinality(Unsupported(s_enumeration)) = 1

\* the module is normalized and its classes are not yet generated
Normalized == pc = "classes"

\* the node element n is that of the statement id, as the statements are
\* now: its children hold the identifier of every substatement of id that is
\* in the schema
NodeOf(n, id) ==
    \A i \in DOMAIN stmts[id].substmts :
        in_schema(stmts[stmts[id].substmts[i]])
            => InSeq(stmts[stmts[id].substmts[i]].arg, Tokens(n.children))

\* C17: in the schema document of a module every tagpath and every list of
\* children is made of the identifiers the statements have after
\* normalization.
C17_SchemaOfNormalized ==
    (Normalized /\ ~opts.no_schema) =>
        \A id \in DOMAIN stmts :
            (InSchema(id) /\ Root(id) = module) =>
                \E n \in SchemaNodes(Path(id)) : NodeOf(n, id)

\* the schema document of a module whose identifiers normalization leaves as
\* they are holds the tagpath of its first leaf, and the leaf is among the
\* children of top
C17_Stable ==
    /\ Normalized /\ ~opts.no_schema
    /\ stmts[LeafId(1)].arg = <<"i","d">>
    /\ SchemaNodes(Path(LeafId(1))) # {}
    /\ \E n \in SchemaNodes(Path(4)) : NodeOf(n, 4)

\* the generation of the classes of the module m has started
Started(m) ==
    \E i \in DOMAIN modules :
        /\ modules[i] = m
        /\ \/ pc \in {"package_info", "finish", "done"}
           \/ pc = "classes" /\ i <= mi
           \/ pc \in {"schema", "normalize"} /\ i < mi

\* C18: once the generation of the classes of a module has started, no step
\* of emit changes the identifier of a statement of the module.
C18_ReadOnly ==
    [][\A id \in DOMAIN stmts :
           Started(Root(id)) => stmts'[id].arg = stmts[id].arg]_vars

\* the package documentation of a module is written and its prefix is what
\* it was when the classes were generated
C18_Kept ==
    /\ pc = "finish"
    /\ \E f \in RootFiles : files[f].content.class_fields.PREFIX = stmts[3].arg

\* in the tree T every identifier of the key of every list is the
\* identifier of a leaf among the substatements of the list
KeysNameLeafs(T) ==
    \A id \in DOMAIN T :
        (T[id].keyword = "list" /\ search_one(T, id, "key") # NoStmt) =>
            \A i \in DOMAIN Tokens(T[search_one(T, id, "key")].arg) :
                search_one_arg(T, id, "leaf",
                               Tokens(T[search_one(T, id, "key")].arg)[i]) # NoStmt

\* C19: when every key identifier of every list names a leaf child of the
\* list before make_valid_identifiers, every identifier of the normalized
\* key names a leaf child by its normalized identifier after it.
C19_KeysKept ==
    [][KeysNameLeafs(stmts) => KeysNameLeafs(stmts')]_vars

\* the key "a-b name" and the leafs a-b and name are normalized to the key
\* "aB name" and the leafs aB and name
C19_Camelized ==
    /\ pc = "classes"
    /\ 5 \in DOMAIN stmts
    /\ stmts[5].arg = <<"a","B"," ","n","a","m","e">>
    /\ KeysNameLeafs(stmts)

\* the number of calls of make_valid_identifier on the statement id in the
\* call make_valid_identifiers(module)
Applications(id) ==
    LET calls == make_valid_calls(stmts, module)
    IN  Cardinality({i \in DOMAIN calls : calls[i] = id})

\* C20: in one call of make_valid_identifiers on a module,
\* make_valid_identifier is called exactly once on every statement of the
\* module, also on one that is both among the substatements and among the
\* i_children of its parent.
C20_OncePerPass ==
    pc = "normalize" =>
        \A id \in DOMAIN stmts : Under(stmts, module, id) => Applications(id) = 1

\* make_valid_identifiers is about to be called on a module whose prefix,
\* among the substatements only, gets one call of make_valid_identifier
C20_PrefixOnce ==
    /\ pc = "normalize"
    /\ search_one(stmts, module, "prefix") # NoStmt
    /\ Applications(search_one(stmts, module, "prefix")) = 1

----------------------------------------------------------------------------
(* The units of containers and lists: childrenNames, addChild, the members *)
(* of container and list children, the clone methods                       *)

\* the children of the statement id: its substatements that are data nodes
Children(id) ==
    SelectSeq(stmts[id].substmts,
              LAMBDA x : stmts[x].keyword \in {"container", "list", "leaf", "leaf-list"})

\* the identifiers of the children of id that are not declared keys
NonKeyChildren(id) ==
    LET children == SelectSeq(Children(id), LAMBDA x : ~IsDeclaredKey(x))
    IN  [i \in DOMAIN children |-> stmts[children[i]].arg]

\* C21: childrenNames() of the unit of a container or list lists, in declared
\* order, exactly the identifiers of the node's declared children that are
\* not keys: no declared key leaf, no argument of a substatement that is not
\* a child, and every non-key child once.
C21_ChildrenNames ==
    ClassesEnded =>
        \A id \in DOMAIN stmts :
            stmts[id].keyword \in {"container", "list"} =>
                \A f \in ClassFiles(id) :
                    files[f].content.children_names.names = NonKeyChildren(id)

\* the unit of a container all of whose substatements are children is
\* written: its childrenNames() are the identifiers of the children
C21_ChildrenOnly ==
    /\ ClassesEnded
    /\ \E id \in DOMAIN stmts :
           /\ stmts[id].keyword = "container"
           /\ Len(Children(id)) = Len(stmts[id].substmts)
           /\ Len(Children(id)) > 1
           /\ \E f \in ClassFiles(id) :
                  files[f].content.children_names.names = NonKeyChildren(id)

\* the identifiers of the children of id that are containers
ContainerChildren(id) ==
    LET children == SelectSeq(Children(id), LAMBDA x : stmts[x].keyword = "container")
    IN  [i \in DOMAIN children |-> stmts[children[i]].arg]

\* C22: the unit of a node has an addChild method iff at least one child of
\* the node is a container (none for a node whose children are lists, leafs
\* and leaf-lists only), and the method tests the container-typed fields in
\* declaration order, so that the first declared matching field wins.
C22_AddChild ==
    ClassesEnded =>
        \A id \in DOMAIN stmts :
            stmts[id].keyword \in {"container", "list"} =>
                \A f \in ClassFiles(id) :
                    LET support_methods == files[f].content.support_methods
                    IN  /\ (support_methods # <<>>) <=> (ContainerChildren(id) # <<>>)
                        /\ support_methods # <<>> =>
                               support_methods[1].tests = ContainerChildren(id)

\* the unit of a node with one container child is written with an addChild
\* that tests the field of that child, and the unit of a node without
\* container children with none
C22_OneContainer ==
    /\ ClassesEnded
    /\ \E id \in DOMAIN stmts, f \in DOMAIN files :
           /\ f \in ClassFiles(id)
           /\ Len(ContainerChildren(id)) = 1
           /\ Len(files[f].content.support_methods) = 1
           /\ files[f].content.support_methods[1].tests = ContainerChildren(id)
    /\ \E id \in DOMAIN stmts, f \in DOMAIN files :
           /\ f \in ClassFiles(id)
           /\ ContainerChildren(id) = <<>>
           /\ Children(id) # <<>>
           /\ files[f].content.support_methods = <<>>

\* C23: for a container child, generate_child declares one owned field
\* (null until the child is added) and emits exactly one add method and
\* exactly one delete method; the delete method clears the field before it
\* deletes the path of the child.
C23_ContainerMembers ==
    \A c \in Calls("generate_child") :
        LET e == returned[c]
        IN  e.keyword = "container" =>
                /\ e.fields = <<e.arg>>
                /\ Len(Methods(e, "child_field")) = 1
                /\ Len(Methods(e, "add_stmt")) = 1
                /\ Len(Methods(e, "delete_stmt")) = 1
                /\ Methods(e, "delete_stmt")[1].clears_field
                /\ Methods(e, "delete_stmt")[1].path = [arg |-> e.arg, predicates |-> <<>>]

\* generate_child has returned for a container child with one field and one
\* delete method, which clears the field and deletes the path of the child
C23_FieldAndDelete ==
    \E c \in Calls("generate_child") :
        LET e == returned[c]
        IN  /\ e.keyword = "container"
            /\ e.fields = <<e.arg>>
            /\ Len(Methods(e, "child_field")) = 1
            /\ Len(Methods(e, "delete_stmt")) = 1
            /\ Methods(e, "delete_stmt")[1].clears_field
            /\ Methods(e, "delete_stmt")[1].path = [arg |-> e.arg, predicates |-> <<>>]
            /\ Len(Methods(e, "add_stmt")) = 2
            /\ Methods(e, "add_stmt")[1].form = "keys"
            /\ Methods(e, "add_stmt")[2].form = "filter"

\* the members of the list child in the generate_child call e: two lookups,
\* one iterator, four add methods, two delete methods, and each delete method
\* builds the path that the lookups build, the identifier of the list and one
\* predicate for each key in the order of keys
ListMembers(e, keys) ==
    /\ Len(Methods(e, "get_stmt")) = 2
    /\ Len(Methods(e, "child_iterator")) = 1
    /\ Len(Methods(e, "add_stmt")) = 4
    /\ Len(Methods(e, "delete_stmt")) = 2
    /\ \A i \in 1..2 :
           /\ Methods(e, "get_stmt")[i].path = [arg |-> e.arg, predicates |-> keys]
           /\ Methods(e, "delete_stmt")[i].path = Methods(e, "get_stmt")[i].path

\* C24: for a list child with keys k1..kn the members of the parent hold
\* exactly two lookup methods, one iteration accessor, four add methods and
\* two delete methods, and the path each delete method builds is the one the
\* lookup builds: the identifier of the list, then one predicate [ki='value']
\* for each key, in the order of the keys.
C24_ListMembers ==
    (ClassesEnded /\ Len(modules) = 1 /\ Complete(module)) =>
        \A k \in Calls("extract_keys") :
            LET id == returned[k].stmt
            IN  (/\ returned[k].exc = None
                 /\ Declared(id)
                 /\ stmts[stmts[id].parent].keyword \in {"container", "list"})
                => \E c \in Calls("generate_child") :
                       /\ returned[c].sub = id
                       /\ ListMembers(returned[c], Tokens(stmts[returned[k].key].arg))

\* the lookup and delete methods that generate_child builds from the keys of
\* a list child have the same path: get_stmt and delete_stmt on the keys
\* that extract_keys has returned for a list under a container or list
C24_SamePath ==
    \E k \in Calls("extract_keys") :
        LET e == returned[k]
            sub == stmts[e.stmt]
        IN  /\ e.exc = None
            /\ stmts[sub.parent].keyword \in {"container", "list"}
            /\ \A string \in BOOLEAN :
                   /\ get_stmt(sub, e.confm_keys, string).path
                          = [arg |-> sub.arg, predicates |-> Tokens(stmts[e.key].arg)]
                   /\ delete_stmt(sub, e.confm_keys, string, TRUE).path
                          = get_stmt(sub, e.confm_keys, string).path

\* the key identifiers of the list whose keys the extract_keys call e has
\* returned, capitalized as in the names of their accessors
KeyAccessors(e) ==
    [i \in DOMAIN Tokens(stmts[e.key].arg) |-> capitalize(Tokens(stmts[e.key].arg)[i])]

\* C25: the unit of a list has a deep clone that rebuilds the list through
\* the accessor of each key in key order and returns null on failure, and a
\* shallow clone without key lookups and without failure handling; the deep
\* and the shallow clone of the unit of a container both forward to the base
\* clone operation with the constructor without arguments, without any key
\* handling.
C25_Clones ==
    (ClassesEnded /\ Len(modules) = 1 /\ Complete(module)) =>
        /\ \A id \in DOMAIN stmts :
               stmts[id].keyword = "container" =>
                   \A f \in ClassFiles(id) :
                       LET cloners == files[f].content.cloners
                       IN  /\ Len(cloners) = 2
                           /\ ~cloners[1].shallow /\ cloners[1].content = "cloneContent"
                           /\ cloners[2].shallow /\ cloners[2].content = "cloneShallowContent"
                           /\ \A i \in 1..2 :
                                  cloners[i].getters = <<>> /\ ~cloners[i].catches
        /\ \A k \in Calls("extract_keys") :
               LET e == returned[k]
               IN  (e.exc = None /\ Declared(e.stmt)) =>
                       /\ ClassFiles(e.stmt) # {}
                       /\ \A f \in ClassFiles(e.stmt) :
                              LET cloners == files[f].content.cloners
                              IN  /\ Len(cloners) = 2
                                  /\ ~cloners[1].shallow
                                  /\ cloners[1].getters = KeyAccessors(e)
                                  /\ cloners[1].catches
                                  /\ cloners[2].shallow
                                  /\ cloners[2].getters = <<>>
                                  /\ ~cloners[2].catches

\* the unit of a container is written with a deep and a shallow clone that
\* have no key handling
C25_ContainerClones ==
    /\ ClassesEnded
    /\ \E id \in DOMAIN stmts :
           /\ stmts[id].keyword = "container"
           /\ \E f \in ClassFiles(id) :
                  LET cloners == files[f].content.cloners
                  IN  /\ Len(cloners) = 2
                      /\ ~cloners[1].shallow /\ cloners[2].shallow
                      /\ \A i \in 1..2 :
                             cloners[i].getters = <<>> /\ ~cloners[i].catches

\* the keys of a list are extracted, and the shallow clone that clone builds
\* from them calls the accessor of each key and catches the failure, as the
\* deep clone does
C25_ShallowLooksUp ==
    \E k \in Calls("extract_keys") :
        LET e == returned[k]
            name == extract_names(stmts[e.stmt].arg).name
        IN  /\ e.exc = None
            /\ clone(name, KeyAccessors(e), TRUE).getters = KeyAccessors(e)
            /\ clone(name, KeyAccessors(e), TRUE).catches
            /\ clone(name, KeyAccessors(e), FALSE).getters = KeyAccessors(e)
            /\ clone(name, KeyAccessors(e), FALSE).catches

----------------------------------------------------------------------------
(* The warnings of a run *)

\* the call e of print_warning is made without ctx, or with debug or verbose
Audible(e) == ~e.ctx \/ opts.debug \/ opts.verbose

\* the line that the call e of print_warning prints, if it prints
Line(e) ==
    IF e.msg # NoMsg THEN e.msg
    ELSE [text |-> "No support for type, defaulting to string.", arg |-> e.key]

\* the lines of stderr that are the line m
Printed(m) == {i \in DOMAIN stderr : stderr[i] = m}

\* C26: over a sequence of print_warning calls in one run, two calls that
\* report the same condition (the same message and the same key, the empty
\* key included) and are not silenced by the options surface exactly once.
C26_Deduplicated ==
    \A i, j \in Calls("print_warning") :
        (/\ i < j
         /\ returned[i].msg = returned[j].msg
         /\ returned[i].key = returned[j].key
         /\ Audible(returned[i]))
        => Cardinality(Printed(Line(returned[i]))) = 1

\* two calls with the same message and the same key that is not empty, not
\* silenced by the options, have printed one line
C26_KeyedOnce ==
    \E i, j \in Calls("print_warning") :
        /\ i < j
        /\ returned[i].msg = returned[j].msg
        /\ returned[i].key = returned[j].key
        /\ returned[i].key # <<>>
        /\ Audible(returned[i])
        /\ Cardinality(Printed(Line(returned[i]))) = 1

----------------------------------------------------------------------------
(* The tasks of two modules *)

\* every task has ended
TasksEnded == \A t \in DOMAIN task : task[t].pc \in {"done", "raised"}

\* C27: when the generations of two modules run as interleaved tasks, every
\* unit is written to the path, and with the contents, that it has in the
\* run of one module after the other: no task fails, every file written is a
\* write_file call of its module at the path from the directory pyang is
\* started in, and in the end every such call has written its file.
C27_Independent ==
    /\ \A t \in DOMAIN task : task[t].pc # "raised"
    /\ \A i \in DOMAIN files :
           \E t \in DOMAIN task :
               \E k \in DOMAIN task[t].units : files[i] = task[t].units[k]
    /\ TasksEnded =>
           \A t \in DOMAIN task :
               \A k \in DOMAIN task[t].units :
                   \E i \in DOMAIN files : files[i] = task[t].units[k]

\* the tasks have run one after the other: every unit of both modules is
\* written, at its path from the directory pyang is started in
C27_Sequential ==
    /\ TasksEnded
    /\ Len(task) = 2
    /\ \A t \in DOMAIN task : task[t].pc = "done" /\ Len(task[t].units) >= 2
    /\ files = task[1].units \o task[2].units
    /\ cwd = <<>>

----------------------------------------------------------------------------
(* Failures of children *)

\* the children of id that are in its i_children only
MaterializedOnly(id) ==
    IF stmts[id].has_i_children
    THEN SelectSeq(stmts[id].i_children, LAMBDA ch : ~InSeq(ch, stmts[id].substmts))
    ELSE <<>>

\* generate_child(id, sub) has returned
ChildReturned(id, sub) ==
    \E c \in Calls("generate_child") : returned[c].stmt = id /\ returned[c].sub = sub

\* the members that the generate_child calls of id have returned for subs,
\* in the order of subs
RECURSIVE MembersOf(_, _, _)
MembersOf(id, subs, i) ==
    IF i > Len(subs) THEN <<>>
    ELSE LET c == CHOOSE c \in Calls("generate_child") :
                      returned[c].stmt = id /\ returned[c].sub = subs[i]
         IN  returned[c].access_methods \o MembersOf(id, subs, i + 1)

C29_Aborted ==
    /\ pc = "raised"
    /\ \E id \in DOMAIN stmts :
           /\ stmts[id].keyword = "container"
           /\ stmts[id].parent = module
           /\ \E i \in DOMAIN stmts[id].substmts :
                  /\ stmts[stmts[id].substmts[i]].keyword = "list"
                  /\ ~ChildReturned(id, stmts[id].substmts[i])
           /\ ClassFiles(id) = {}

\* the units written whose keyNames() returns null, the sign of no keys
NoKeysUnits ==
    {f \in DOMAIN files :
        /\ "key_names" \in DOMAIN files[f].content
        /\ files[f].content.key_names.null}

\* C30: a list without a key statement never gets a unit: generate_class of
\* a list runs extract_keys before it writes, and extract_keys fails on a
\* list without a key statement; a unit whose keyNames() returns the sign of
\* no keys is the unit of a container.
C30_NoKeylessList ==
    ClassesEnded =>
        /\ \A id \in DOMAIN stmts :
               (stmts[id].keyword = "list" /\ search_one(stmts, id, "key") = NoStmt) =>
                   /\ ClassFiles(id) = {}
                   /\ \A c \in Calls("extract_keys") :
                          returned[c].stmt = id => returned[c].exc = "AttributeError"
        /\ \A f \in NoKeysUnits :
               \E id \in DOMAIN stmts :
                   stmts[id].keyword = "container" /\ f \in ClassFiles(id)

\* generate_class was called on a list without a key statement: extract_keys
\* has failed for it and no unit of the list is written, and the unit of a
\* container is written with the sign of no keys
C30_Witness ==
    /\ ClassesEnded
    /\ \E id \in DOMAIN stmts :
           /\ stmts[id].keyword = "list"
           /\ search_one(stmts, id, "key") = NoStmt
           /\ \E c \in Calls("extract_keys") :
                  returned[c].stmt = id /\ returned[c].exc = "AttributeError"
           /\ ClassFiles(id) = {}
    /\ \E id \in DOMAIN stmts :
           /\ stmts[id].keyword = "container"
           /\ ClassFiles(id) # {}
           /\ ClassFiles(id) \subseteq NoKeysUnits

\* generate_class was called on a declared list without a key statement:
\* extract_keys has failed, no unit is written and the exception has left
\* emit
C30_Declared ==
    /\ pc = "raised"
    /\ \E id \in DOMAIN stmts :
           /\ stmts[id].keyword = "list"
           /\ Declared(id)
           /\ search_one(stmts, id, "key") = NoStmt
           /\ \E c \in Calls("extract_keys") :
                  returned[c].stmt = id /\ returned[c].exc = "AttributeError"
           /\ ClassFiles(id) = {}

====
